---- MODULE Spec2Model ----
(***************************************************************************)
(* A model of lib/derpprobe.ts (the smoothing variant, lines 1-509): the   *)
(* argument assembly, the supervision of the derpprobe child process, the  *)
(* log parser, the latency calibrator and the per-node probe history.      *)
(*                                                                         *)
(* Text is modelled as a sequence of atoms.  An atom is either a single    *)
(* character the code looks at (" ", "\t", "\n", "-", "/", ":", "=") or an  *)
(* indivisible chunk of other characters ("once", "nyc", "31").  String    *)
(* operations of the code (split, trim, startsWith, includes, regular      *)
(* expressions) are computed on these sequences.                           *)
(*                                                                         *)
(* Numbers that may carry two decimals (latencies) are integers counting   *)
(* hundredths of a millisecond.                                            *)
(***************************************************************************)
EXTENDS Integers, Sequences, FiniteSets, TLC

VARIABLES
    envArgs,      \* process.env.DERPPROBE_ARGS (<<>> when unset or empty)
    envDerpMap,   \* process.env.DERPPROBE_DERP_MAP (<<>> when unset or empty)
    envTimeout,   \* process.env.DERPPROBE_TIMEOUT_MS: [set, text]
    files,        \* the documents of the file system, by path
    argWords,     \* ghost: the words envArgs was written from
    limits,       \* what the environment may do: [lines, chunks, cycles, times, codes, errors]
    now,          \* Date.now(), in ms
    nodeProbeHistory,        \* node id -> the samples of its window
    nodeLatencyCalibrators,  \* node id -> [startTime, deque]
    recorded,     \* ghost: node id -> every sample taken for it, oldest first
    cycle,        \* the number of invocations of runDerpprobe so far
    startedAt,    \* of the current invocation
    args,         \* the argument list handed to spawn
    timeoutMs,    \* the delay handed to setTimeout
    regionIdMap,  \* the region table loaded for the invocation
    stderr,       \* the diagnostic text captured so far
    stdout,       \* the output text captured so far (raw-fallback variant only)
    chunks,       \* ghost: the catalog lines the child has written
    settled,      \* the flag of the same name
    timerPending, \* the timeout is set, and neither fired nor cleared
    closeEmitted, \* the child has emitted 'close'
    errorEmitted, \* the child has emitted 'error'
    exitCode,     \* ghost: the code of the 'close' event
    errorMessage, \* ghost: the message of the 'error' event
    kills,        \* the calls of child.kill('SIGTERM')
    resolveCalls, \* the calls of resolve
    outcome,      \* ghost: the handler that resolved the result
    result,       \* the value the promise resolved to, or NoResult
    overlapping   \* the invocation that runs at the same time as the one above:
                  \* [cycle, running, settled, startedAt, regionIdMap, stderr, chunks, result]

envVars == <<envArgs, envDerpMap, envTimeout, files, argWords, limits>>
processVars == <<nodeProbeHistory, nodeLatencyCalibrators, recorded>>
launchVars == <<cycle, startedAt, args, timeoutMs, regionIdMap>>
childVars == <<stderr, stdout, chunks, closeEmitted, errorEmitted, exitCode, errorMessage>>
promiseVars == <<settled, timerPending, kills, resolveCalls, outcome, result>>

vars == <<envVars, now, processVars, launchVars, childVars, promiseVars, overlapping>>

-----------------------------------------------------------------------------
(* Bounds of the model *)

\* SpecArgs: the words of DERPPROBE_ARGS
MaxArgWords == 3
\* Spec: the lines the child writes in the one invocation
MaxChunks == 2
\* SpecCycles: the invocations, and the lines the child writes in each
MaxCycles == 2
MaxCycleChunks == 2
\* SpecLog: the lines of the log
MaxLogLines == 3
\* SpecRaw: the texts on the output stream
MaxOutputLines == 2
\* The invocations of SpecHistory, one more than the window holds
MaxHistoryCycles == 11
\* The calls of one calibrator in SpecCalibrator
MaxCalibratorCalls == 4

-----------------------------------------------------------------------------
(* Program constants *)

DEFAULT_TIMEOUT_MS == 75000
MIN_ONCE_TIMEOUT_MS == 65000

-----------------------------------------------------------------------------
(* String operations of the JavaScript runtime, on sequences of atoms *)

SeqsUpTo(S, n) == UNION {[1..k -> S] : k \in 0..n}

IsSpace(a) == a \in {" ", "\t", "\n"}

Min(S) == CHOOSE x \in S : \A y \in S : x <= y
Max(S) == CHOOSE x \in S : \A y \in S : x >= y

\* String.prototype.trim: from the first to the last atom that is no white space
Trim(s) ==
    LET kept == {i \in 1..Len(s) : ~IsSpace(s[i])} IN
    IF kept = {} THEN <<>> ELSE SubSeq(s, Min(kept), Max(kept))

\* String.prototype.startsWith
StartsWith(s, p) == Len(s) >= Len(p) /\ SubSeq(s, 1, Len(p)) = p

\* String.prototype.includes
Includes(s, p) == \E i \in 1..(Len(s) - Len(p) + 1) : SubSeq(s, i, i + Len(p) - 1) = p

\* String.prototype.split with a one-character separator: the pieces between the
\* separators, one more than there are separators
Split(s, sep) ==
    LET at == {i \in 1..Len(s) : s[i] = sep}
        \* the position of the k-th separator; 0 and Len(s) + 1 bracket the text
        pos(k) == IF k = 0 THEN 0
                  ELSE IF k > Cardinality(at) THEN Len(s) + 1
                  ELSE CHOOSE i \in at : Cardinality({j \in at : j < i}) = k - 1
    IN  [k \in 1..(Cardinality(at) + 1) |-> SubSeq(s, pos(k - 1) + 1, pos(k) - 1)]

MapTrim(ss) == [i \in 1..Len(ss) |-> Trim(ss[i])]

\* Array.prototype.filter(Boolean) on strings: the empty string is falsy
NonEmpty(s) == s # <<>>

-----------------------------------------------------------------------------
(* Argument assembly: parseArgs, appendDerpMapArg, resolveTimeoutMs *)

FlagOnce == <<"-", "once">>
FlagOnceLong == <<"-", "-", "once">>
FlagJson == <<"-", "json">>
FlagJsonLong == <<"-", "-", "json">>
FlagDerpMap == <<"-", "derp", "-", "map">>
FlagDerpMapLong == <<"-", "-", "derp", "-", "map">>

NotJsonToken(token) ==
    /\ token # FlagJson
    /\ token # FlagJsonLong
    /\ ~StartsWith(token, FlagJsonLong \o <<"=">>)

parseArgs(argsText) ==
    IF Trim(argsText) = <<>> THEN <<FlagOnce>>
    ELSE SelectSeq(SelectSeq(MapTrim(Split(argsText, " ")), NonEmpty), NotJsonToken)

IsDerpMapToken(token) ==
    \/ token = FlagDerpMap
    \/ token = FlagDerpMapLong
    \/ StartsWith(token, FlagDerpMap \o <<"=">>)
    \/ StartsWith(token, FlagDerpMapLong \o <<"=">>)

\* as hasDerpMapFlag, seeing only the bare forms of the flag
hasDerpMapFlagBareOnly(as) ==
    \E i \in 1..Len(as) : as[i] = FlagDerpMap \/ as[i] = FlagDerpMapLong

hasDerpMapFlag(as) == \E i \in 1..Len(as) : IsDerpMapToken(as[i])

appendDerpMapArg(as, derpMap) ==
    IF derpMap = <<>> \/ Trim(derpMap) = <<>> THEN as
    ELSE IF hasDerpMapFlag(as) THEN as
    ELSE as \o <<FlagDerpMap, Trim(derpMap)>>

IsOnceToken(token) ==
    \/ token = FlagOnce
    \/ token = FlagOnceLong
    \/ StartsWith(token, FlagOnce \o <<"=">>)
    \/ StartsWith(token, FlagOnceLong \o <<"=">>)

hasOnceFlag(as) == \E i \in 1..Len(as) : IsOnceToken(as[i])

\* as resolveTimeoutMs, without the floor
resolveTimeoutMsNoFloor(baseTimeoutMs, as) == baseTimeoutMs

resolveTimeoutMs(baseTimeoutMs, as) ==
    IF hasOnceFlag(as) /\ baseTimeoutMs < MIN_ONCE_TIMEOUT_MS
    THEN MIN_ONCE_TIMEOUT_MS
    ELSE baseTimeoutMs

\* Number(text) for the texts of the model; NaN is reported as not finite
NumberTexts == {<<>>, <<"10">>, <<"65000">>, <<"90000">>}

NumberOf(text) ==
    CASE text = <<>> -> [finite |-> TRUE, value |-> 0]
      [] text = <<"10">> -> [finite |-> TRUE, value |-> 10]
      [] text = <<"65000">> -> [finite |-> TRUE, value |-> 65000]
      [] text = <<"90000">> -> [finite |-> TRUE, value |-> 90000]
      [] OTHER -> [finite |-> FALSE, value |-> 0]

\* toNumber applied to an environment variable: [def, value]
toNumber(env) ==
    IF env.set /\ NumberOf(env.text).finite
    THEN [def |-> TRUE, value |-> NumberOf(env.text).value]
    ELSE [def |-> FALSE, value |-> 0]

configuredTimeoutMs(env) ==
    IF toNumber(env).def THEN toNumber(env).value ELSE DEFAULT_TIMEOUT_MS

-----------------------------------------------------------------------------
(* Optional values: JavaScript's undefined is [def |-> FALSE] *)

Undef == [def |-> FALSE, v |-> 0]
Some(x) == [def |-> TRUE, v |-> x]

NoText == [def |-> FALSE, text |-> <<>>]
SomeText(t) == [def |-> TRUE, text |-> t]

\* Math.round(n / d) for d > 0: the nearest integer, a half rounding up
RoundDiv(n, d) == (2 * n + d) \div (2 * d)

-----------------------------------------------------------------------------
(* The log parser: stripLogPrefix, parseLatencyMs, normalizeProbeMessage,  *)
(* parseNodesFromProbeLog                                                  *)

\* The number of digits of an atom made of digits only, 0 for any other atom
DigitCount(a) ==
    CASE a \in {"1", "5"} -> 1
      [] a \in {"01", "02", "03", "04", "05", "10", "20", "31"} -> 2
      [] a \in {"850"} -> 3
      [] a \in {"2026"} -> 4
      [] a \in {"10250"} -> 5
      [] OTHER -> 0

\* Number(a) for an atom made of digits only
DigitValue(a) ==
    CASE a = "1" -> 1 [] a = "5" -> 5
      [] a = "01" -> 1 [] a = "02" -> 2 [] a = "03" -> 3 [] a = "04" -> 4
      [] a = "05" -> 5 [] a = "10" -> 10 [] a = "20" -> 20 [] a = "31" -> 31
      [] a = "850" -> 850 [] a = "2026" -> 2026 [] a = "10250" -> 10250
      [] OTHER -> 0

RECURSIVE Pow10(_)
Pow10(k) == IF k = 0 THEN 1 ELSE 10 * Pow10(k - 1)

At(s, i) == IF i >= 1 /\ i <= Len(s) THEN s[i] ELSE "<end>"

IsDigits(s, i, n) == DigitCount(At(s, i)) = n

\* The first index from i on that holds no white space (\s* in a regular expression)
RECURSIVE SkipSpaces(_, _)
SkipSpaces(s, i) == IF i <= Len(s) /\ IsSpace(s[i]) THEN SkipSpaces(s, i + 1) ELSE i

\* /^\d{4}\/\d{2}\/\d{2}\s+\d{2}:\d{2}:\d{2}\s+/: the index after the match, 0 for no match
LogPrefixEnd(line) ==
    IF /\ IsDigits(line, 1, 4) /\ At(line, 2) = "/"
       /\ IsDigits(line, 3, 2) /\ At(line, 4) = "/"
       /\ IsDigits(line, 5, 2) /\ IsSpace(At(line, 6))
    THEN LET t == SkipSpaces(line, 6) IN
         IF /\ IsDigits(line, t, 2) /\ At(line, t + 1) = ":"
            /\ IsDigits(line, t + 2, 2) /\ At(line, t + 3) = ":"
            /\ IsDigits(line, t + 4, 2) /\ IsSpace(At(line, t + 5))
         THEN SkipSpaces(line, t + 5)
         ELSE 0
    ELSE 0

stripLogPrefix(line) ==
    LET e == LogPrefixEnd(line) IN
    Trim(IF e > 0 THEN SubSeq(line, e, Len(line)) ELSE line)

\* The units of the pattern, which ignores case; "<micro>s" and "<mu>s" stand for
\* the two spellings of the micro sign (U+00B5, U+03BC) followed by s
LatencyUnits == {"ms", "MS", "Ms", "us", "US", "<micro>s", "<mu>s"}

\* \w of a regular expression, by the first character of an atom
IsWordAtom(a) == a \notin {" ", "\t", "\n", "-", "/", ":", "=", ".", "|", "[::]", "<end>"}

\* The match of /([0-9]+(?:\.[0-9]+)?)\s*(ms|us|..)\b/i that starts at index i:
\* [ok, num, den, unit], the number being num / den
LatencyMatchAt(text, i) ==
    LET frac == At(text, i + 1) = "." /\ DigitCount(At(text, i + 2)) > 0
        tryAt(numEnd, num, den) ==
            LET u == SkipSpaces(text, numEnd + 1) IN
            IF At(text, u) \in LatencyUnits /\ ~IsWordAtom(At(text, u + 1))
            THEN [ok |-> TRUE, num |-> num, den |-> den, unit |-> At(text, u)]
            ELSE [ok |-> FALSE, num |-> 0, den |-> 1, unit |-> ""]
        whole == tryAt(i, DigitValue(At(text, i)), 1)
        withFrac ==
            LET k == DigitCount(At(text, i + 2)) IN
            tryAt(i + 2, DigitValue(At(text, i)) * Pow10(k) + DigitValue(At(text, i + 2)),
                  Pow10(k))
    IN  IF DigitCount(At(text, i)) = 0 THEN [ok |-> FALSE, num |-> 0, den |-> 1, unit |-> ""]
        ELSE IF frac /\ withFrac.ok THEN withFrac
        ELSE whole

\* String.prototype.match: the leftmost match
FirstLatencyMatch(text) ==
    LET starts == {i \in 1..Len(text) : LatencyMatchAt(text, i).ok} IN
    IF starts = {} THEN [ok |-> FALSE, num |-> 0, den |-> 1, unit |-> ""]
    ELSE LatencyMatchAt(text, Min(starts))

\* The latency in hundredths of a millisecond, or undefined
parseLatencyMs(text) ==
    LET m == FirstLatencyMatch(text) IN
    IF ~m.ok THEN Undef
    ELSE IF m.unit \in {"ms", "MS", "Ms"}
         THEN Some(100 * RoundDiv(m.num, m.den))
         ELSE Some(RoundDiv(m.num, m.den * 10))

TextUnreachable == <<"network", " ", "is", " ", "unreachable">>
TextWriteUdp == <<"write", " ", "udp", " ", "[::]">>
TextDialUdp == <<"dial", " ", "udp", " ", "[::]">>
ProbeUdp == <<"udp">>
ProbeUdp6 == <<"udp6">>

normalizeProbeMessage(probeType, resultText) ==
    IF probeType = ProbeUdp6 /\ Includes(resultText, TextUnreachable)
    THEN ProbeUdp6 \o <<":", " ">> \o TextUnreachable
    ELSE probeType \o <<":", " ">> \o resultText

\* The first index from i on that holds a, 0 when there is none
IndexOfFrom(s, a, i) ==
    LET at == {j \in i..Len(s) : s[j] = a} IN
    IF at = {} THEN 0 ELSE Min(at)

\* /^(good|bad):\s+derp\/([^:]+):\s*(.+)$/ on a stripped line: [ok, level, path, resultText]
NoLineMatch == [ok |-> FALSE, level |-> "", path |-> <<>>, resultText |-> <<>>]

lineRegex(line) ==
    IF At(line, 1) \in {"good", "bad"} /\ At(line, 2) = ":" /\ IsSpace(At(line, 3))
    THEN LET d == SkipSpaces(line, 3)
             c == IndexOfFrom(line, ":", d + 2)
             r == SkipSpaces(line, c + 1)
         IN  IF /\ At(line, d) = "derp" /\ At(line, d + 1) = "/"
                /\ c > d + 2
                /\ r <= Len(line)
             THEN [ok |-> TRUE, level |-> line[1],
                   path |-> SubSeq(line, d + 2, c - 1),
                   resultText |-> SubSeq(line, r, Len(line))]
             ELSE NoLineMatch
    ELSE NoLineMatch

MapStrip(ls) == [i \in 1..Len(ls) |-> stripLogPrefix(ls[i])]

\* lines 278-281
LogLinesOf(stderrText) == SelectSeq(MapStrip(Split(stderrText, "\n")), NonEmpty)

\* lines 282-287
isIpv6UnsupportedNetwork(lines) ==
    \E i \in 1..Len(lines) :
        /\ Includes(lines[i], <<"/", "udp6", ":">>)
        /\ Includes(lines[i], TextUnreachable)
        /\ (Includes(lines[i], TextWriteUdp) \/ Includes(lines[i], TextDialUdp))

NodeIdOf(shortRegion, cloudRegion) == shortRegion \o <<"-">> \o cloudRegion

NewTempNode(shortRegion, cloudRegion) ==
    [id |-> NodeIdOf(shortRegion, cloudRegion), name |-> shortRegion, region |-> cloudRegion,
     good |-> 0, bad |-> 0, badUdp6 |-> 0, nonUdp6Error |-> FALSE,
     udpLatencyMs |-> Undef, messages |-> <<>>]

\* lines 334-352: one matched line added to its node
UpdateTempNode(node, level, probeType, resultText, v6Unsupported) ==
    IF level = "good"
    THEN [node EXCEPT
            !.good = @ + 1,
            !.udpLatencyMs =
                IF probeType = ProbeUdp /\ parseLatencyMs(resultText).def
                THEN parseLatencyMs(resultText) ELSE @]
    ELSE [node EXCEPT
            !.bad = @ + 1,
            !.messages = Append(@, normalizeProbeMessage(probeType, resultText)),
            !.badUdp6 =
                IF /\ probeType = ProbeUdp6 /\ Includes(resultText, TextUnreachable)
                   /\ ~v6Unsupported
                THEN @ + 1 ELSE @,
            !.nonUdp6Error =
                IF probeType = ProbeUdp6 /\ Includes(resultText, TextUnreachable)
                THEN @ ELSE TRUE]

\* as IndexOfId, never finding the node
IndexOfIdMissing(nodes, id) == 0

IndexOfId(nodes, id) ==
    IF \E i \in 1..Len(nodes) : nodes[i].id = id
    THEN CHOOSE i \in 1..Len(nodes) : nodes[i].id = id
    ELSE 0

\* lines 305-354: the body of the loop over the lines; map is in insertion order
AddLogLine(map, line, v6Unsupported) ==
    LET m == lineRegex(line)
        segments == Split(m.path, "/")
    IN  IF ~m.ok THEN map
        ELSE IF Len(segments) < 3 THEN map
        ELSE LET id == NodeIdOf(segments[1], segments[2])
                 k == IndexOfId(map, id)
                 node == IF k > 0 THEN map[k] ELSE NewTempNode(segments[1], segments[2])
                 upd == UpdateTempNode(node, m.level, segments[Len(segments)],
                                       m.resultText, v6Unsupported)
             IN  IF k > 0 THEN [map EXCEPT ![k] = upd] ELSE Append(map, upd)

RECURSIVE AggregateLines(_, _, _)
AggregateLines(lines, v6Unsupported, map) ==
    IF lines = <<>> THEN map
    ELSE AggregateLines(Tail(lines), v6Unsupported,
                        AddLogLine(map, Head(lines), v6Unsupported))

\* as NodeStatus, with the degraded rule tried before the down rule
NodeStatusDegradedFirst(node) ==
    IF node.badUdp6 > 0 THEN "degraded"
    ELSE IF node.nonUdp6Error \/ (node.bad > 0 /\ node.good = 0) THEN "down"
    ELSE IF node.good > 0 THEN "healthy"
    ELSE "unknown"

\* as NodeStatus, without the rule for a node that has failures and no success
NodeStatusWithoutBadOnly(node) ==
    IF node.nonUdp6Error THEN "down"
    ELSE IF node.badUdp6 > 0 THEN "degraded"
    ELSE IF node.good > 0 THEN "healthy"
    ELSE "unknown"

\* lines 359-366
NodeStatus(node) ==
    IF node.nonUdp6Error \/ (node.bad > 0 /\ node.good = 0) THEN "down"
    ELSE IF node.badUdp6 > 0 THEN "degraded"
    ELSE IF node.good > 0 THEN "healthy"
    ELSE "unknown"

RECURSIVE JoinTexts(_, _)
JoinTexts(ts, sep) ==
    IF ts = <<>> THEN <<>>
    ELSE IF Len(ts) = 1 THEN Head(ts)
    ELSE Head(ts) \o sep \o JoinTexts(Tail(ts), sep)

\* lines 368-376
ResultNode(node, checkedAt) ==
    [id |-> node.id, name |-> node.name, region |-> node.region,
     latencyMs |-> node.udpLatencyMs,
     status |-> NodeStatus(node),
     message |-> IF Len(node.messages) > 0
                 THEN SomeText(JoinTexts(node.messages, <<" ", "|", " ">>))
                 ELSE NoText,
     checkedAt |-> checkedAt,
     lossPct |-> Undef, avgLatencyMs |-> Undef]

-----------------------------------------------------------------------------
(* Region ordering: loadRegionIdMapFromDerpMap, regionSortValue, the sort  *)

\* String.prototype.toLowerCase, atom by atom
LowerAtom(a) ==
    CASE a = "SEA" -> "sea"
      [] a = "NYC" -> "nyc"
      [] a = "Node" -> "node"
      [] OTHER -> a

ToLower(s) == [i \in 1..Len(s) |-> LowerAtom(s[i])]

\* Map.prototype.get and Map.prototype.set on a map kept as a function
MapGet(map, key) == IF key \in DOMAIN map THEN Some(map[key]) ELSE Undef
MapSet(map, key, value) ==
    [k \in DOMAIN map \cup {key} |-> IF k = key THEN value ELSE map[k]]
EmptyMap == [k \in {} |-> 0]

\* fileURLToPath for a file:// location, the location itself otherwise (lines 232-234)
DerpMapPath(location) ==
    IF StartsWith(location, <<"file://">>) THEN Tail(location) ELSE location

\* lines 243-255: the loop over Object.values(regions)
RECURSIVE RegionEntries(_, _)
RegionEntries(regions, map) ==
    IF regions = <<>> THEN map
    ELSE LET region == Head(regions)
             regionCode == IF region.RegionCode.def
                           THEN ToLower(Trim(region.RegionCode.text)) ELSE <<>>
         IN  IF regionCode = <<>> \/ ~region.RegionID.def
             THEN RegionEntries(Tail(regions), map)
             ELSE RegionEntries(Tail(regions), MapSet(map, regionCode, region.RegionID.v))

\* as loadRegionIdMapFromDerpMap, reading the entries of whatever document the
\* path names
loadRegionIdMapFromAnyDocument(derpMapLocation, fs) ==
    IF derpMapLocation = <<>> \/ Trim(derpMapLocation) = <<>> THEN EmptyMap
    ELSE LET path == DerpMapPath(derpMapLocation) IN
         IF path \notin DOMAIN fs THEN EmptyMap
         ELSE RegionEntries(fs[path].regions, EmptyMap)

\* fs: the documents of the file system by path.  readFileSync throws for a path
\* that is absent or unreadable and JSON.parse for a text that is no JSON; the
\* catch of lines 257-259 gives the empty map, as does a document without
\* Regions (lines 238-240)
loadRegionIdMapFromDerpMap(derpMapLocation, fs) ==
    IF derpMapLocation = <<>> \/ Trim(derpMapLocation) = <<>> THEN EmptyMap
    ELSE LET path == DerpMapPath(derpMapLocation) IN
         IF path \notin DOMAIN fs THEN EmptyMap
         ELSE IF ~fs[path].readable \/ ~fs[path].isJson THEN EmptyMap
         ELSE IF ~fs[path].hasRegions THEN EmptyMap
         ELSE RegionEntries(fs[path].regions, EmptyMap)

Coalesce(x, y) == IF x.def THEN x ELSE y

\* as regionSortValue, trying the region before the name and the id
regionSortValueRegionFirst(node, regionIds) ==
    Coalesce(MapGet(regionIds, ToLower(Trim(node.region))),
             Coalesce(MapGet(regionIds, ToLower(Trim(node.name))),
                      MapGet(regionIds, ToLower(Trim(Split(node.id, "-")[1])))))

\* lines 262-271
regionSortValue(node, regionIds) ==
    LET codeFromName == ToLower(Trim(node.name))
        codeFromId == ToLower(Trim(Split(node.id, "-")[1]))
        codeFromRegion == ToLower(Trim(node.region))
    IN  Coalesce(MapGet(regionIds, codeFromName),
                 Coalesce(MapGet(regionIds, codeFromId),
                          MapGet(regionIds, codeFromRegion)))

\* The collation of the locale, for the atoms that occur in names and regions.
\* Letters are ordered first without regard to case and to the way an accented
\* letter is encoded: "<U+00E9>" is e with acute accent in one code point,
\* "e<U+0301>" the same letter as e followed by the combining accent
CollationOrder ==
    <<" ", "-", "1", "<U+00E9>", "east", "eu", "lhr", "nyc", "sea", "us", "west">>

CollationRank(a) ==
    CHOOSE i \in 1..Len(CollationOrder) :
        CollationOrder[i] = (IF a = "e<U+0301>" THEN "<U+00E9>" ELSE LowerAtom(a))

\* Among strings equal but for case, lower case goes first
CaseRank(a) == IF a = LowerAtom(a) THEN 0 ELSE 1

\* The order of two sequences of ranks, a prefix first: -1, 0 or 1
RECURSIVE CompareRanks(_, _)
CompareRanks(x, y) ==
    IF x = <<>> /\ y = <<>> THEN 0
    ELSE IF x = <<>> THEN -1
    ELSE IF y = <<>> THEN 1
    ELSE IF Head(x) < Head(y) THEN -1
    ELSE IF Head(x) > Head(y) THEN 1
    ELSE CompareRanks(Tail(x), Tail(y))

\* String.prototype.localeCompare: -1, 0 or 1; the letters decide, then their
\* case, and strings that are canonically equivalent compare as 0
localeCompare(x, y) ==
    IF CompareRanks([i \in 1..Len(x) |-> CollationRank(x[i])],
                    [i \in 1..Len(y) |-> CollationRank(y[i])]) # 0
    THEN CompareRanks([i \in 1..Len(x) |-> CollationRank(x[i])],
                      [i \in 1..Len(y) |-> CollationRank(y[i])])
    ELSE CompareRanks([i \in 1..Len(x) |-> CaseRank(x[i])],
                      [i \in 1..Len(y) |-> CaseRank(y[i])])

\* lines 379-397: the comparator
CompareNodes(a, b, regionIds) ==
    LET aOrder == regionSortValue(a, regionIds)
        bOrder == regionSortValue(b, regionIds)
    IN  IF aOrder.def /\ bOrder.def /\ aOrder.v # bOrder.v THEN aOrder.v - bOrder.v
        ELSE IF aOrder.def /\ ~bOrder.def THEN -1
        ELSE IF ~aOrder.def /\ bOrder.def THEN 1
        ELSE IF a.name # b.name THEN localeCompare(a.name, b.name)
        ELSE localeCompare(a.region, b.region)

\* Array.prototype.sort is stable: an element goes after the elements that do
\* not compare greater than it
RECURSIVE InsertNode(_, _, _)
InsertNode(sorted, x, regionIds) ==
    IF sorted = <<>> THEN <<x>>
    ELSE IF CompareNodes(Head(sorted), x, regionIds) > 0 THEN <<x>> \o sorted
    ELSE <<Head(sorted)>> \o InsertNode(Tail(sorted), x, regionIds)

RECURSIVE SortNodes(_, _, _)
SortNodes(nodes, sorted, regionIds) ==
    IF nodes = <<>> THEN sorted
    ELSE SortNodes(Tail(nodes), InsertNode(sorted, Head(nodes), regionIds), regionIds)

\* lines 357-377: the loop over map.values()
ResultNodes(map, checkedAt) == [i \in 1..Len(map) |-> ResultNode(map[i], checkedAt)]

\* lines 278-355: lines, isIpv6UnsupportedNetwork and the map filled by the loop
NodeMapOf(stderrText) ==
    CHOOSE map \in { AggregateLines(lines, isIpv6UnsupportedNetwork(lines), <<>>) :
                        lines \in {LogLinesOf(stderrText)} } : TRUE

parseNodesFromProbeLog(stderrText, checkedAt, regionIds) ==
    SortNodes(ResultNodes(NodeMapOf(stderrText), checkedAt), <<>>, regionIds)

-----------------------------------------------------------------------------
(* The latency calibrator and the probe history                            *)

PROBE_WINDOW_SIZE == 10
CALIBRATION_WINDOW_MINS == 10
CALIBRATION_FALLBACK_MS == 10
CALIBRATION_WARMUP_MINS == 2

\* lines 33-36: the state a calibrator closes over; times in ms, rtt in 1/100 ms
createLatencyCalibrator(time) == [startTime |-> time, deque |-> <<>>]

\* as getNodeLatencyCalibrator, creating a calibrator at every request
getNodeLatencyCalibratorFresh(calibrators, nodeId, time) == createLatencyCalibrator(time)

\* as EvictOld, keeping every sample
EvictOldNever(deque, currentTime, windowSize) == deque

\* lines 39-41: samples older than the window leave at the front
RECURSIVE EvictOld(_, _, _)
EvictOld(deque, currentTime, windowSize) ==
    IF deque # <<>> /\ currentTime - deque[1].timestamp > windowSize
    THEN EvictOld(Tail(deque), currentTime, windowSize)
    ELSE deque

\* as PopNotSmaller, a sample of the same round trip staying in the window
RECURSIVE PopNotSmallerKeepEqual(_, _)
PopNotSmallerKeepEqual(deque, currentRtt) ==
    IF deque # <<>> /\ deque[Len(deque)].rtt > currentRtt
    THEN PopNotSmallerKeepEqual(SubSeq(deque, 1, Len(deque) - 1), currentRtt)
    ELSE deque

\* lines 43-45: samples not smaller than the new one leave at the back
RECURSIVE PopNotSmaller(_, _)
PopNotSmaller(deque, currentRtt) ==
    IF deque # <<>> /\ deque[Len(deque)].rtt >= currentRtt
    THEN PopNotSmaller(SubSeq(deque, 1, Len(deque) - 1), currentRtt)
    ELSE deque

\* lines 39-47: the sample window after a call
CalibratorPush(cal, currentRtt, currentTime) ==
    LET windowSize == CALIBRATION_WINDOW_MINS * 60 * 1000 IN
    Append(PopNotSmaller(EvictOld(cal.deque, currentTime, windowSize), currentRtt),
           [timestamp |-> currentTime, rtt |-> currentRtt])

\* as CalibratorDelay, without the cap of the warm-up period
CalibratorDelayUncapped(cal, currentRtt, currentTime) ==
    LET first == CalibratorPush(cal, currentRtt, currentTime)[1].rtt
    IN  IF currentRtt - first > 0 THEN currentRtt - first ELSE 0

\* as CalibratorDelay, with the cap of the warm-up period applied for ever
CalibratorDelayAlwaysCapped(cal, currentRtt, currentTime) ==
    LET first == CalibratorPush(cal, currentRtt, currentTime)[1].rtt
        baseline == IF first > CALIBRATION_FALLBACK_MS * 100
                    THEN CALIBRATION_FALLBACK_MS * 100 ELSE first
    IN  IF currentRtt - baseline > 0 THEN currentRtt - baseline ELSE 0

\* lines 49-55: the value a call returns
CalibratorDelay(cal, currentRtt, currentTime) ==
    LET deque == CalibratorPush(cal, currentRtt, currentTime)
        warmupPeriod == CALIBRATION_WARMUP_MINS * 60 * 1000
        fallback == CALIBRATION_FALLBACK_MS * 100
        first == deque[1].rtt
        baseline == IF currentTime - cal.startTime < warmupPeriod /\ first > fallback
                    THEN fallback ELSE first
    IN  IF currentRtt - baseline > 0 THEN currentRtt - baseline ELSE 0

\* lines 59-72: the calibrator of the node, created at the first request for it
getNodeLatencyCalibrator(calibrators, nodeId, time) ==
    IF nodeId \in DOMAIN calibrators THEN calibrators[nodeId]
    ELSE createLatencyCalibrator(time)

RECURSIVE SumLatency(_)
SumLatency(samples) ==
    IF samples = <<>> THEN 0 ELSE Head(samples).latencyMs.v + SumLatency(Tail(samples))

HasLatency(x) == x.latencyMs.def
IsSuccess(x) == x.success

\* as TrimWindow, dropping the newest samples of a full window
TrimWindowKeepOldest(pushed) ==
    IF Len(pushed) > PROBE_WINDOW_SIZE THEN SubSeq(pushed, 1, PROBE_WINDOW_SIZE) ELSE pushed

\* lines 179-181: history.splice(0, history.length - PROBE_WINDOW_SIZE)
TrimWindow(pushed) ==
    IF Len(pushed) > PROBE_WINDOW_SIZE
    THEN SubSeq(pushed, Len(pushed) - PROBE_WINDOW_SIZE + 1, Len(pushed))
    ELSE pushed

\* as LossPct, truncating instead of rounding
LossPctTruncated(history) ==
    ((Len(history) - Len(SelectSeq(history, IsSuccess))) * 100) \div Len(history)

\* lines 184-186: Math.round((1 - successCount / history.length) * 100)
LossPct(history) ==
    RoundDiv((Len(history) - Len(SelectSeq(history, IsSuccess))) * 100, Len(history))

\* as AverageLatency, with a sample without latency counted as zero
AverageLatencyOverAll(history) ==
    IF SelectSeq(history, HasLatency) = <<>> THEN Undef
    ELSE Some(RoundDiv(SumLatency(SelectSeq(history, HasLatency)), Len(history)))

\* lines 188-196: the mean of the latencies present, Math.round of it from 1 ms on
\* (Number(avg.toFixed(2)) below that)
AverageLatency(history) ==
    IF SelectSeq(history, HasLatency) = <<>> THEN Undef
    ELSE CHOOSE avg \in
             { IF total >= 100 * n THEN Some(100 * RoundDiv(total, 100 * n))
               ELSE Some(RoundDiv(total, n)) :
                 <<total, n>> \in { <<SumLatency(SelectSeq(history, HasLatency)),
                                     Len(SelectSeq(history, HasLatency))>> } } : TRUE

\* as UpdateOneNode, with a history map that keeps only the node of the call
UpdateOneNodeAlone(st, node, time) ==
    LET cal == getNodeLatencyCalibrator(st.calibrators, node.id, time)
        calibrated == node.latencyMs.def
        latencyMs == IF calibrated
                     THEN Some(CalibratorDelay(cal, node.latencyMs.v, time))
                     ELSE node.latencyMs
        calibrators == IF calibrated
                       THEN MapSet(st.calibrators, node.id,
                                   [cal EXCEPT !.deque =
                                       CalibratorPush(cal, node.latencyMs.v, time)])
                       ELSE st.calibrators
        success == node.status = "healthy" \/ node.status = "degraded"
        old == IF node.id \in DOMAIN st.history THEN st.history[node.id] ELSE <<>>
        history == TrimWindow(Append(old, [success |-> success, latencyMs |-> latencyMs]))
    IN  [nodes |-> Append(st.nodes, [node EXCEPT !.latencyMs = latencyMs,
                                                 !.lossPct = Some(LossPct(history)),
                                                 !.avgLatencyMs = AverageLatency(history)]),
         history |-> MapSet(EmptyMap, node.id, history),
         calibrators |-> calibrators]

\* lines 170-197: the body of the loop, for one node; st = [nodes, history, calibrators]
UpdateOneNode(st, node, time) ==
    LET cal == getNodeLatencyCalibrator(st.calibrators, node.id, time)
        calibrated == node.latencyMs.def
        latencyMs == IF calibrated
                     THEN Some(CalibratorDelay(cal, node.latencyMs.v, time))
                     ELSE node.latencyMs
        calibrators == IF calibrated
                       THEN MapSet(st.calibrators, node.id,
                                   [cal EXCEPT !.deque =
                                       CalibratorPush(cal, node.latencyMs.v, time)])
                       ELSE st.calibrators
        success == node.status = "healthy" \/ node.status = "degraded"
        old == IF node.id \in DOMAIN st.history THEN st.history[node.id] ELSE <<>>
        history == TrimWindow(Append(old, [success |-> success, latencyMs |-> latencyMs]))
    IN  [nodes |-> Append(st.nodes, [node EXCEPT !.latencyMs = latencyMs,
                                                 !.lossPct = Some(LossPct(history)),
                                                 !.avgLatencyMs = AverageLatency(history)]),
         history |-> MapSet(st.history, node.id, history),
         calibrators |-> calibrators]

RECURSIVE UpdateNodes(_, _, _)
UpdateNodes(st, nodes, time) ==
    IF nodes = <<>> THEN st
    ELSE UpdateNodes(UpdateOneNode(st, Head(nodes), time), Tail(nodes), time)

\* The nodes as updated in place, and the two process-wide maps afterwards
updateNodeLossFromHistory(nodes, history, calibrators, time) ==
    UpdateNodes([nodes |-> <<>>, history |-> history, calibrators |-> calibrators],
                nodes, time)

-----------------------------------------------------------------------------
(* summarize *)

CountStatus(nodes, status) == Cardinality({i \in 1..Len(nodes) : nodes[i].status = status})

\* as summarize, with the latency total divided by the number of all nodes
summarizeOverAllNodes(nodes) ==
    LET withLatency == SelectSeq(nodes, HasLatency)
        latencyTotal == SumLatency(withLatency)
        latencyCount == Len(withLatency)
    IN  [total |-> Len(nodes),
         healthy |-> CountStatus(nodes, "healthy"),
         degraded |-> CountStatus(nodes, "degraded"),
         down |-> CountStatus(nodes, "down"),
         unknown |-> CountStatus(nodes, "unknown"),
         avgLatencyMs |-> IF latencyCount > 0
                          THEN Some(RoundDiv(latencyTotal, 100 * Len(nodes)))
                          ELSE Undef]

\* lines 142-166
summarize(nodes) ==
    LET withLatency == SelectSeq(nodes, HasLatency)
        latencyTotal == SumLatency(withLatency)
        latencyCount == Len(withLatency)
    IN  [total |-> Len(nodes),
         healthy |-> CountStatus(nodes, "healthy"),
         degraded |-> CountStatus(nodes, "degraded"),
         down |-> CountStatus(nodes, "down"),
         unknown |-> CountStatus(nodes, "unknown"),
         avgLatencyMs |-> IF latencyCount > 0
                          THEN Some(RoundDiv(latencyTotal, 100 * latencyCount))
                          ELSE Undef]

\* lines 434-441 and 465-472: the summary written out in the timeout and error handlers
EmptySummary ==
    [total |-> 0, healthy |-> 0, degraded |-> 0, down |-> 0, unknown |-> 0,
     avgLatencyMs |-> Undef]

-----------------------------------------------------------------------------
(* The environments the model draws from *)

ArgWords ==
    { FlagOnce,
      FlagJson, FlagJsonLong,
      FlagJsonLong \o <<"=", "true">>, FlagJson \o <<"=", "true">>,
      <<"-", "-", "foo">>,
      FlagDerpMap, FlagDerpMapLong,
      FlagDerpMap \o <<"=", "/m.json">>, FlagDerpMapLong \o <<"=", "/m.json">> }

Separators == { <<" ">>, <<"\t", " ", " ">> }

RECURSIVE JoinWords(_, _)
JoinWords(ws, sep) ==
    IF ws = <<>> THEN <<>>
    ELSE IF Len(ws) = 1 THEN Head(ws)
    ELSE Head(ws) \o sep \o JoinWords(Tail(ws), sep)

DerpMapFilePath == <<"/tmp/derp-map.json">>

DerpMapEnvs == { <<>>, <<" ", "\t">>, <<" ">> \o DerpMapFilePath \o <<" ">> }

TimeoutUnset == [set |-> FALSE, text |-> <<>>]
TimeoutText(t) == [set |-> TRUE, text |-> t]

\* The document of the test (derpprobe.test.ts, lines 54-61), the codes in upper case
DerpMapDocument ==
    [readable |-> TRUE, isJson |-> TRUE, hasRegions |-> TRUE,
     regions |-> << [RegionCode |-> SomeText(<<"SEA">>), RegionID |-> Some(1)],
                    [RegionCode |-> SomeText(<<"nyc", " ">>), RegionID |-> Some(2)] >>]

\* Three more files: one the process may not read, one whose text is the document
\* cut short, and one whose entries stand under a key that is not Regions
UnreadableFilePath == <<"/tmp/unreadable.json">>
InvalidJsonFilePath == <<"/tmp/truncated.json">>
NoRegionsFilePath == <<"/tmp/no-regions.json">>

FileSystem ==
    (DerpMapFilePath :> DerpMapDocument)
        @@ (UnreadableFilePath :> [DerpMapDocument EXCEPT !.readable = FALSE])
        @@ (InvalidJsonFilePath :> [DerpMapDocument EXCEPT !.isJson = FALSE])
        @@ (NoRegionsFilePath :> [DerpMapDocument EXCEPT !.hasRegions = FALSE])

\* A line of the child's diagnostic stream, with what it is:
\* level "good"/"bad" and the path's first two segments a, b for a line of the
\* grammar with at least three segments (level "none" otherwise); unreach: a bad
\* udp6 line whose text has 'network is unreachable'; marker: the text also has
\* 'write udp [::]' or 'dial udp [::]'
DerpLine(level, a, b, probe, resultText) ==
    <<level, ":", " ", "derp", "/">> \o a \o <<"/">> \o b \o <<"/">> \o probe
        \o <<":", " ">> \o resultText

Timestamp == <<"2026", "/", "01", "/", "02", " ", "03", ":", "04", ":", "05", " ">>

Nyc == <<"nyc">>
Sea == <<"sea">>
UsEast == <<"us", "-", "east">>
UsWest == <<"us", "-", "west">>
EuWest == <<"eu", "-", "west">>

Line(text, level, a, b, probe, unreach, marker) ==
    [text |-> text, level |-> level, a |-> a, b |-> b, probe |-> probe,
     unreach |-> unreach, marker |-> marker]

LogCatalog ==
    << \* 1: good: derp/nyc/us-east/udp: 31ms
       Line(DerpLine("good", Nyc, UsEast, <<"udp">>, <<"31", "ms">>),
            "good", Nyc, UsEast, "udp", FALSE, FALSE),
       \* 2: bad: derp/nyc/us-east/tcp: i/o timeout
       Line(DerpLine("bad", Nyc, UsEast, <<"tcp">>, <<"i/o", " ", "timeout">>),
            "bad", Nyc, UsEast, "tcp", FALSE, FALSE),
       \* 3: good: derp/nyc-us/east/udp: 20ms (another pair that joins to nyc-us-east)
       Line(DerpLine("good", <<"nyc", "-", "us">>, <<"east">>, <<"udp">>, <<"20", "ms">>),
            "good", <<"nyc", "-", "us">>, <<"east">>, "udp", FALSE, FALSE),
       \* 4: good: derp/nyc/us-east/udp: 10250us
       Line(DerpLine("good", Nyc, UsEast, <<"udp">>, <<"10250", "us">>),
            "good", Nyc, UsEast, "udp", FALSE, FALSE),
       \* 5: 2026/01/02 03:04:05 good: derp/sea/us-west/udp: 20ms
       Line(Timestamp \o DerpLine("good", Sea, UsWest, <<"udp">>, <<"20", "ms">>),
            "good", Sea, UsWest, "udp", FALSE, FALSE),
       \* 6: bad: derp/nyc/us-east/udp6: sendto: network is unreachable
       Line(DerpLine("bad", Nyc, UsEast, <<"udp6">>,
                     <<"sendto", ":", " ">> \o TextUnreachable),
            "bad", Nyc, UsEast, "udp6", TRUE, FALSE),
       \* 7: bad: derp/sea/us-west/udp6: write udp [::]:0: network is unreachable
       Line(DerpLine("bad", Sea, UsWest, <<"udp6">>,
                     TextWriteUdp \o <<":", "0", ":", " ">> \o TextUnreachable),
            "bad", Sea, UsWest, "udp6", TRUE, TRUE),
       \* 8: good: derp/sea/us-west/host1/tcp: ok
       Line(DerpLine("good", Sea, UsWest, <<"host1", "/", "tcp">>, <<"ok">>),
            "good", Sea, UsWest, "tcp", FALSE, FALSE),
       \* 9: good: derp/nyc/udp: 20ms (a path of two segments)
       Line(<<"good", ":", " ", "derp", "/", "nyc", "/", "udp", ":", " ", "20", "ms">>,
            "none", <<>>, <<>>, "", FALSE, FALSE),
       \* 10: derpprobe starting (no line of the grammar)
       Line(<<"derpprobe", " ", "starting">>, "none", <<>>, <<>>, "", FALSE, FALSE),
       \* 11: good: derp/nyc/us-east/udp: 10ms
       Line(DerpLine("good", Nyc, UsEast, <<"udp">>, <<"10", "ms">>),
            "good", Nyc, UsEast, "udp", FALSE, FALSE),
       \* 12: good: derp/NYC/us-east/udp: 20ms
       Line(DerpLine("good", <<"NYC">>, UsEast, <<"udp">>, <<"20", "ms">>),
            "good", <<"NYC">>, UsEast, "udp", FALSE, FALSE),
       \* 13: good: derp/lhr/sea/udp: 20ms
       Line(DerpLine("good", <<"lhr">>, Sea, <<"udp">>, <<"20", "ms">>),
            "good", <<"lhr">>, Sea, "udp", FALSE, FALSE),
       \* 14: good: derp/lhr/eu-west/udp: 20ms
       Line(DerpLine("good", <<"lhr">>, EuWest, <<"udp">>, <<"20", "ms">>),
            "good", <<"lhr">>, EuWest, "udp", FALSE, FALSE),
       \* 15: good: derp/nyc/sea/udp: 20ms
       Line(DerpLine("good", Nyc, Sea, <<"udp">>, <<"20", "ms">>),
            "good", Nyc, Sea, "udp", FALSE, FALSE),
       \* 16: good: derp/<U+00E9>/eu-west/udp: 20ms, the name in one code point
       Line(DerpLine("good", <<"<U+00E9>">>, EuWest, <<"udp">>, <<"20", "ms">>),
            "good", <<"<U+00E9>">>, EuWest, "udp", FALSE, FALSE),
       \* 17: good: derp/e<U+0301>/eu-west/udp: 20ms, the same name in two code points
       Line(DerpLine("good", <<"e<U+0301>">>, EuWest, <<"udp">>, <<"20", "ms">>),
            "good", <<"e<U+0301>">>, EuWest, "udp", FALSE, FALSE),
       \* 18: good: derp/nyc /us-east/udp: 20ms, a space after the name
       Line(DerpLine("good", <<"nyc", " ">>, UsEast, <<"udp">>, <<"20", "ms">>),
            "good", <<"nyc", " ">>, UsEast, "udp", FALSE, FALSE),
       \* 19: bad: derp/sea/udp6: write udp [::]:0: network is unreachable (a path of
       \* two segments)
       Line(<<"bad", ":", " ", "derp", "/", "sea", "/", "udp6", ":", " ">>
                \o TextWriteUdp \o <<":", "0", ":", " ">> \o TextUnreachable,
            "none", <<>>, <<>>, "", FALSE, FALSE),
       \* 20: good: derp/sea/us-west/udp6: 20ms
       Line(DerpLine("good", Sea, UsWest, <<"udp6">>, <<"20", "ms">>),
            "good", Sea, UsWest, "udp6", FALSE, FALSE) >>

\* The text of the lines written, each ended by a newline
RECURSIVE ChunksText(_)
ChunksText(cs) ==
    IF cs = <<>> THEN <<>>
    ELSE LogCatalog[Head(cs)].text \o <<"\n">> \o ChunksText(Tail(cs))

\* process exit codes; null is [isNull |-> TRUE]
NoExitCode == [isNull |-> TRUE, n |-> -1]

ExitCodes ==
    { [isNull |-> TRUE, n |-> 0] } \cup { [isNull |-> FALSE, n |-> k] : k \in {0, 1, 2} }

LaunchErrors == { "spawn failed", "spawn derpprobe ENOENT" }

-----------------------------------------------------------------------------
(* runDerpprobe *)

NoResult == [resolved |-> FALSE]

NoError == [def |-> FALSE, text |-> "", n |-> 0]
ErrorText(text, n) == [def |-> TRUE, text |-> text, n |-> n]

\* resolve: the first call settles the promise, a later call changes nothing
Resolve(value) ==
    /\ resolveCalls' = resolveCalls + 1
    /\ result' = IF result = NoResult THEN value ELSE result

\* lines 403-420 and 422, 446: the arguments, the timeout, the region table, spawn
\* and setTimeout.  The caller awaits the result before it polls again.
Launch ==
    /\ cycle < limits.cycles
    /\ cycle > 0 => result # NoResult
    /\ cycle' = cycle + 1
    /\ startedAt' = now
    /\ args' = appendDerpMapArg(parseArgs(envArgs), envDerpMap)
    /\ timeoutMs' = resolveTimeoutMs(configuredTimeoutMs(envTimeout), args')
    /\ regionIdMap' = loadRegionIdMapFromDerpMap(envDerpMap, files)
    /\ stderr' = <<>>
    /\ stdout' = <<>>
    /\ chunks' = <<>>
    /\ settled' = FALSE
    /\ timerPending' = TRUE
    /\ closeEmitted' = FALSE
    /\ errorEmitted' = FALSE
    /\ exitCode' = NoExitCode
    /\ errorMessage' = ""
    /\ kills' = 0
    /\ resolveCalls' = 0
    /\ outcome' = "pending"
    /\ result' = NoResult
    /\ UNCHANGED <<envVars, overlapping, now, processVars>>

\* Time passes: the clock moves to a later point of the invocation
Tick ==
    /\ cycle > 0
    /\ \E e \in limits.times : e > now - startedAt /\ now' = startedAt + e
    /\ UNCHANGED <<envVars, overlapping, processVars, launchVars, childVars, promiseVars>>

\* lines 448-450: the 'data' listener of child.stderr
StderrData ==
    /\ cycle > 0
    /\ ~closeEmitted
    /\ Len(chunks) < limits.chunks
    /\ \E i \in limits.lines :
          /\ chunks' = Append(chunks, i)
          /\ stderr' = stderr \o LogCatalog[i].text \o <<"\n">>
    /\ UNCHANGED <<envVars, overlapping, now, processVars, launchVars, stdout, closeEmitted,
                   errorEmitted, exitCode, errorMessage, promiseVars>>

\* as TimedOutResult, with the captured lines parsed into nodes
TimedOutResultParsed ==
    LET nodes == parseNodesFromProbeLog(stderr, now, regionIdMap) IN
    [resolved |-> TRUE, ok |-> FALSE, checkedAt |-> now, durationMs |-> now - startedAt,
     summary |-> summarize(nodes), nodes |-> nodes, stderr |-> SomeText(stderr),
     error |-> ErrorText("derpprobe timed out after <n>ms", timeoutMs)]

TimedOutResult ==
    [resolved |-> TRUE, ok |-> FALSE, checkedAt |-> now, durationMs |-> now - startedAt,
     summary |-> EmptySummary, nodes |-> <<>>, stderr |-> SomeText(stderr),
     error |-> ErrorText("derpprobe timed out after <n>ms", timeoutMs)]

\* as OnTimeout, without the call of child.kill
OnTimeoutNoKill ==
    /\ cycle > 0
    /\ timerPending
    /\ now - startedAt >= timeoutMs
    /\ timerPending' = FALSE
    /\ IF settled
       THEN UNCHANGED <<settled, kills, resolveCalls, outcome, result>>
       ELSE /\ settled' = TRUE
            /\ UNCHANGED kills
            /\ outcome' = "TimedOut"
            /\ Resolve(TimedOutResult)
    /\ UNCHANGED <<envVars, overlapping, now, processVars, launchVars, childVars>>

\* as OnTimeout, returning without a result
OnTimeoutSilent ==
    /\ cycle > 0
    /\ timerPending
    /\ now - startedAt >= timeoutMs
    /\ timerPending' = FALSE
    /\ UNCHANGED <<settled, kills, resolveCalls, outcome, result>>
    /\ UNCHANGED <<envVars, overlapping, now, processVars, launchVars, childVars>>

\* lines 422-446: the timer's callback; it runs no sooner than timeoutMs after setTimeout
OnTimeout ==
    /\ cycle > 0
    /\ timerPending
    /\ now - startedAt >= timeoutMs
    /\ timerPending' = FALSE
    /\ IF settled
       THEN UNCHANGED <<settled, kills, resolveCalls, outcome, result>>
       ELSE /\ settled' = TRUE
            /\ kills' = kills + 1
            /\ outcome' = "TimedOut"
            /\ Resolve(TimedOutResult)
    /\ UNCHANGED <<envVars, overlapping, now, processVars, launchVars, childVars>>

\* as LaunchFailedResult, with the captured lines parsed into nodes
LaunchFailedResultParsed(message) ==
    LET nodes == parseNodesFromProbeLog(stderr, now, regionIdMap) IN
    [resolved |-> TRUE, ok |-> FALSE, checkedAt |-> now, durationMs |-> now - startedAt,
     summary |-> summarize(nodes), nodes |-> nodes, stderr |-> SomeText(stderr),
     error |-> ErrorText(message, 0)]

LaunchFailedResult(message) ==
    [resolved |-> TRUE, ok |-> FALSE, checkedAt |-> now, durationMs |-> now - startedAt,
     summary |-> EmptySummary, nodes |-> <<>>, stderr |-> SomeText(stderr),
     error |-> ErrorText(message, 0)]

\* lines 452-477: the 'error' listener of the child
OnError ==
    /\ cycle > 0
    /\ ~errorEmitted
    /\ errorEmitted' = TRUE
    /\ errorMessage' \in limits.errors
    /\ IF settled
       THEN UNCHANGED promiseVars
       ELSE /\ timerPending' = FALSE
            /\ settled' = TRUE
            /\ outcome' = "LaunchFailed"
            /\ Resolve(LaunchFailedResult(errorMessage'))
            /\ UNCHANGED kills
    /\ UNCHANGED <<envVars, overlapping, now, processVars, launchVars, stderr, stdout, chunks,
                   closeEmitted, exitCode>>

\* line 491
IsHealthy(node) == node.status = "healthy"

\* as ExitOk, with exit code 1 accepted whatever the nodes
ExitOkLenient(code, nodes) == ~code.isNull /\ code.n \in {0, 1}

\* as ExitOk, with exit code 1 accepted only when there is a node
ExitOkSomeNode(code, nodes) ==
    \/ (~code.isNull /\ code.n = 0)
    \/ (~code.isNull /\ code.n = 1 /\ nodes # <<>>
            /\ \A i \in 1..Len(nodes) : IsHealthy(nodes[i]))

\* line 491
ExitOk(code, nodes) ==
    \/ (~code.isNull /\ code.n = 0)
    \/ (~code.isNull /\ code.n = 1 /\ \A i \in 1..Len(nodes) : IsHealthy(nodes[i]))

\* lines 500-505
ExitError(ok, code) ==
    IF ~ok /\ ~code.isNull THEN ErrorText("derpprobe exited with code <n>", code.n)
    ELSE IF ~ok THEN ErrorText("derpprobe exited with an unknown error", 0)
    ELSE NoError

\* lines 487-506: the nodes and the maps after updateNodeLossFromHistory, and the result
\* line 488: the nodes as parsed, before the history update
CompletedParse == parseNodesFromProbeLog(stderr, now, regionIdMap)

CompletedUpdate ==
    updateNodeLossFromHistory(CompletedParse, nodeProbeHistory, nodeLatencyCalibrators, now)

\* ghost: one sample per node of the cycle: the success and the latency stored in
\* the history, the raw latency handed to the calibrator, and the time
RecordNode(rec, raw, node, time) ==
    MapSet(rec, node.id,
           Append(IF node.id \in DOMAIN rec THEN rec[node.id] ELSE <<>>,
                  [success |-> node.status \in {"healthy", "degraded"},
                   latencyMs |-> node.latencyMs, rtt |-> raw.latencyMs, at |-> time]))

RECURSIVE RecordCycle(_, _, _, _)
RecordCycle(rec, parsed, nodes, time) ==
    IF nodes = <<>> THEN rec
    ELSE RecordCycle(RecordNode(rec, Head(parsed), Head(nodes), time),
                     Tail(parsed), Tail(nodes), time)

\* as CompletedResult, with the summary of the nodes as parsed
CompletedResultParsedSummary(code, nodes) ==
    [resolved |-> TRUE, ok |-> ExitOk(code, nodes), checkedAt |-> now,
     durationMs |-> now - startedAt,
     summary |-> summarize(CompletedParse), nodes |-> nodes,
     stderr |-> IF Trim(stderr) # <<>> THEN SomeText(Trim(stderr)) ELSE NoText,
     error |-> ExitError(ExitOk(code, nodes), code)]

\* lines 487-506: the result of the 'close' handler
CompletedResult(code, nodes) ==
    [resolved |-> TRUE, ok |-> ExitOk(code, nodes), checkedAt |-> now,
     durationMs |-> now - startedAt,
     summary |-> summarize(nodes), nodes |-> nodes,
     stderr |-> IF Trim(stderr) # <<>> THEN SomeText(Trim(stderr)) ELSE NoText,
     error |-> ExitError(ExitOk(code, nodes), code)]

\* as OnClose, without the test of settled
OnCloseUnguarded ==
    /\ cycle > 0
    /\ ~closeEmitted
    /\ \E updated \in {CompletedUpdate} :
       /\ closeEmitted' = TRUE
       /\ exitCode' \in limits.codes
       /\ timerPending' = FALSE
       /\ settled' = TRUE
       /\ outcome' = "Completed"
       /\ nodeProbeHistory' = updated.history
       /\ nodeLatencyCalibrators' = updated.calibrators
       /\ recorded' = RecordCycle(recorded, CompletedParse, updated.nodes, now)
       /\ Resolve(CompletedResult(exitCode', updated.nodes))
       /\ UNCHANGED kills
    /\ UNCHANGED <<envVars, overlapping, now, launchVars, stderr, stdout, chunks, errorEmitted,
                   errorMessage>>

\* lines 479-507: the 'close' listener of the child
OnClose ==
    /\ cycle > 0
    /\ ~closeEmitted
    /\ \E updated \in {CompletedUpdate} :
       /\ closeEmitted' = TRUE
       /\ exitCode' \in limits.codes
       /\ IF settled
          THEN UNCHANGED <<promiseVars, processVars>>
          ELSE /\ timerPending' = FALSE
               /\ settled' = TRUE
               /\ outcome' = "Completed"
               /\ nodeProbeHistory' = updated.history
               /\ nodeLatencyCalibrators' = updated.calibrators
               /\ recorded' = RecordCycle(recorded, CompletedParse, updated.nodes, now)
               /\ Resolve(CompletedResult(exitCode', updated.nodes))
               /\ UNCHANGED kills
    /\ UNCHANGED <<envVars, overlapping, now, launchVars, stderr, stdout, chunks, errorEmitted,
                   errorMessage>>

\* route.ts lines 7-9: GET calls runDerpprobe for every request, whether or not an
\* earlier call has resolved.  No second invocation has been made:
NotOverlapping ==
    [cycle |-> 0, running |-> FALSE, settled |-> FALSE, startedAt |-> 0,
     regionIdMap |-> EmptyMap, stderr |-> <<>>, chunks |-> <<>>, result |-> NoResult]

\* lines 403-420 and 422, 446, for a request that arrives while the invocation
\* of an earlier request has not resolved; one such request per invocation, and
\* overlapping.cycle is the number of the invocation it met
LaunchOverlapping ==
    /\ cycle > 0 /\ ~settled
    /\ ~overlapping.running
    /\ overlapping.cycle < cycle
    /\ overlapping' =
          [cycle |-> cycle, running |-> TRUE, settled |-> FALSE,
           startedAt |-> now,
           regionIdMap |-> loadRegionIdMapFromDerpMap(envDerpMap, files),
           stderr |-> <<>>, chunks |-> <<>>, result |-> NoResult]
    /\ UNCHANGED <<envVars, now, processVars, launchVars, childVars, promiseVars>>

\* lines 448-450, in the closure of the overlapping invocation
StderrDataOverlapping ==
    /\ overlapping.running
    /\ Len(overlapping.chunks) < limits.chunks
    /\ \E i \in limits.lines :
          overlapping' =
              [overlapping EXCEPT !.chunks = Append(@, i),
                                  !.stderr = @ \o LogCatalog[i].text \o <<"\n">>]
    /\ UNCHANGED <<envVars, now, processVars, launchVars, childVars, promiseVars>>

\* lines 488-489 in the closure of the overlapping invocation: its own log, the
\* two maps of the module
OverlappingParse ==
    parseNodesFromProbeLog(overlapping.stderr, now, overlapping.regionIdMap)

\* as OverlappingUpdate, on maps of its own
OverlappingUpdateApart ==
    updateNodeLossFromHistory(OverlappingParse, EmptyMap, EmptyMap, now)

OverlappingUpdate ==
    updateNodeLossFromHistory(OverlappingParse, nodeProbeHistory, nodeLatencyCalibrators, now)

\* lines 479-507 in the closure of the overlapping invocation.  The listener runs
\* to its end without yielding: no listener of the other invocation runs
\* between its lines.  Neither its timer nor an 'error' event is modelled, so
\* settled is false when 'close' arrives.
OnCloseOverlapping ==
    /\ overlapping.running
    /\ ~overlapping.settled
    /\ \E code \in limits.codes :
       \E updated \in {OverlappingUpdate} :
          /\ nodeProbeHistory' = updated.history
          /\ nodeLatencyCalibrators' = updated.calibrators
          /\ recorded' = RecordCycle(recorded, OverlappingParse, updated.nodes, now)
          /\ overlapping' =
                [overlapping EXCEPT
                    !.running = FALSE,
                    !.settled = TRUE,
                    !.result =
                        [CompletedResult(code, updated.nodes) EXCEPT
                            !.durationMs = now - overlapping.startedAt,
                            !.stderr = IF Trim(overlapping.stderr) # <<>>
                                       THEN SomeText(Trim(overlapping.stderr))
                                       ELSE NoText]]
    /\ UNCHANGED <<envVars, now, launchVars, childVars, promiseVars>>

\* One call of a node's calibrator (lines 38-56), obtained as
\* updateNodeLossFromHistory obtains it (lines 172-173), at a time not before the
\* previous call; the ghost list keeps the round trip, the time and the delay
CalibratedId == Nyc \o <<"-">> \o UsEast
CalibratorRtts == {500, 1500, 3000}
CalibratorSteps == {0, 60000, 120000, 600000}

CalibratorCalls ==
    IF CalibratedId \in DOMAIN recorded THEN Len(recorded[CalibratedId]) ELSE 0

CalibratorCall ==
    /\ CalibratorCalls < MaxCalibratorCalls
    /\ \E currentRtt \in CalibratorRtts, step \in CalibratorSteps :
          \E cal \in {getNodeLatencyCalibrator(nodeLatencyCalibrators, CalibratedId,
                                                now + step)} :
              /\ now' = now + step
              /\ nodeLatencyCalibrators' =
                     MapSet(nodeLatencyCalibrators, CalibratedId,
                            [cal EXCEPT !.deque = CalibratorPush(cal, currentRtt, now')])
              /\ recorded' =
                     MapSet(recorded, CalibratedId,
                            Append(IF CalibratedId \in DOMAIN recorded
                                   THEN recorded[CalibratedId] ELSE <<>>,
                                   [success |-> TRUE,
                                    latencyMs |-> Some(CalibratorDelay(cal, currentRtt, now')),
                                    rtt |-> Some(currentRtt),
                                    at |-> now']))
    /\ UNCHANGED <<envVars, overlapping, nodeProbeHistory, launchVars, childVars, promiseVars>>

Next == Launch \/ Tick \/ StderrData \/ OnTimeout \/ OnError \/ OnClose

-----------------------------------------------------------------------------
(* Initial states *)

\* The module has just been loaded: no invocation yet, the two maps empty
Fresh ==
    /\ now = 0
    /\ nodeProbeHistory = EmptyMap
    /\ nodeLatencyCalibrators = EmptyMap
    /\ recorded = EmptyMap
    /\ cycle = 0
    /\ startedAt = 0
    /\ args = <<>>
    /\ timeoutMs = 0
    /\ regionIdMap = EmptyMap
    /\ stderr = <<>>
    /\ stdout = <<>>
    /\ chunks = <<>>
    /\ settled = FALSE
    /\ timerPending = FALSE
    /\ closeEmitted = FALSE
    /\ errorEmitted = FALSE
    /\ exitCode = NoExitCode
    /\ errorMessage = ""
    /\ kills = 0
    /\ resolveCalls = 0
    /\ outcome = "pending"
    /\ result = NoResult
    /\ overlapping = NotOverlapping

ElapsedPoints == {10, 64999, 65000, 75000}

\* Spec: one invocation, in one of six environments, every event in every order
SupervisorEnvs ==
    { [words |-> <<FlagOnce>>, derpMap |-> <<>>, timeout |-> TimeoutText(<<"10">>)],
      [words |-> <<FlagJsonLong, <<"-", "-", "foo">>>>, derpMap |-> <<>>,
       timeout |-> TimeoutText(<<"10">>)],
      [words |-> <<FlagOnceLong \o <<"=", "true">>>>, derpMap |-> <<>>,
       timeout |-> TimeoutText(<<"10">>)],
      [words |-> <<FlagOnceLong>>, derpMap |-> <<>>, timeout |-> TimeoutText(<<"10">>)],
      [words |-> <<<<"-", "-", "foo">>, FlagOnce \o <<"=", "true">>>>, derpMap |-> <<>>,
       timeout |-> TimeoutText(<<"10">>)],
      [words |-> <<>>, derpMap |-> DerpMapFilePath, timeout |-> TimeoutUnset] }

SupervisorLines == {1, 2, 5, 6}

Init ==
    /\ \E e \in SupervisorEnvs :
          /\ argWords = e.words
          /\ envArgs = JoinWords(e.words, <<" ">>)
          /\ envDerpMap = e.derpMap
          /\ envTimeout = e.timeout
    /\ files = FileSystem
    /\ limits = [lines |-> SupervisorLines, chunks |-> MaxChunks, cycles |-> 1,
                 times |-> ElapsedPoints, codes |-> ExitCodes, errors |-> LaunchErrors]
    /\ Fresh

Spec == Init /\ [][Next]_vars

\* SpecLive: as Spec, with one line for the child to write and one exit code, and
\* with the clock and the timer scheduled fairly: time does not stop before the
\* last point of the invocation, and a timer that is due and pending fires
InitLive ==
    /\ \E e \in SupervisorEnvs :
          /\ argWords = e.words
          /\ envArgs = JoinWords(e.words, <<" ">>)
          /\ envDerpMap = e.derpMap
          /\ envTimeout = e.timeout
    /\ files = FileSystem
    /\ limits = [lines |-> {1}, chunks |-> MaxChunks, cycles |-> 1,
                 times |-> ElapsedPoints, codes |-> { [isNull |-> FALSE, n |-> 0] },
                 errors |-> { "spawn failed" }]
    /\ Fresh

SpecLive == InitLive /\ [][Next]_vars /\ WF_vars(Tick) /\ WF_vars(OnTimeout)

\* SpecArgs: the argument assembly of Launch on every text of up to MaxArgWords words
InitArgs ==
    /\ argWords \in SeqsUpTo(ArgWords, MaxArgWords)
    /\ \E sep \in Separators : \E pad \in {<<>>, <<" ">>} :
           envArgs = pad \o JoinWords(argWords, sep) \o pad
    /\ envDerpMap \in DerpMapEnvs
    /\ envTimeout = TimeoutUnset
    /\ files = FileSystem
    /\ limits = [lines |-> {}, chunks |-> 0, cycles |-> 1, times |-> {}, codes |-> {},
                 errors |-> {}]
    /\ Fresh

SpecArgs == InitArgs /\ [][Launch]_vars

\* SpecCycles: several invocations one after the other, in one environment
CycleLines == {1, 2, 3}
CycleCodes == { [isNull |-> FALSE, n |-> 0], [isNull |-> FALSE, n |-> 2] }

InitCycles ==
    /\ argWords = <<FlagOnce>>
    /\ envArgs = FlagOnce
    /\ envDerpMap = <<>>
    /\ envTimeout = TimeoutUnset
    /\ files = FileSystem
    /\ limits = [lines |-> CycleLines, chunks |-> MaxCycleChunks, cycles |-> MaxCycles,
                 times |-> {75000}, codes |-> CycleCodes, errors |-> {"spawn failed"}]
    /\ Fresh

SpecCycles == InitCycles /\ [][Next]_vars

\* SpecHistory: more invocations than the history window holds, each ended by
\* 'close' after at most one line about one node
HistoryLines == {1, 2}

InitHistory ==
    /\ argWords = <<FlagOnce>>
    /\ envArgs = FlagOnce
    /\ envDerpMap = <<>>
    /\ envTimeout = TimeoutUnset
    /\ files = FileSystem
    /\ limits = [lines |-> HistoryLines, chunks |-> 1,
                 cycles |-> MaxHistoryCycles, times |-> {},
                 codes |-> { [isNull |-> FALSE, n |-> 0] }, errors |-> {}]
    /\ Fresh

SpecHistory == InitHistory /\ [][Launch \/ StderrData \/ OnClose]_vars

\* SpecAverage: a few invocations, each ended by 'close' after at most one line
\* about one node: round trips of 31, 10.25 and 10 ms, or a failure
AverageLines == {1, 2, 4, 11}

InitAverage ==
    /\ argWords = <<FlagOnce>>
    /\ envArgs = FlagOnce
    /\ envDerpMap = <<>>
    /\ envTimeout = TimeoutUnset
    /\ files = FileSystem
    /\ limits = [lines |-> AverageLines, chunks |-> 1,
                 cycles |-> MaxCycles + 1, times |-> {},
                 codes |-> { [isNull |-> FALSE, n |-> 0] }, errors |-> {}]
    /\ Fresh

SpecAverage == InitAverage /\ [][Launch \/ StderrData \/ OnClose]_vars

\* SpecNodes: several invocations one after the other, each with at most one line,
\* about one of two nodes, with a round trip or without
NodeLines == {1, 5, 8, 11}

InitNodes ==
    /\ argWords = <<FlagOnce>>
    /\ envArgs = FlagOnce
    /\ envDerpMap = <<>>
    /\ envTimeout = TimeoutUnset
    /\ files = FileSystem
    /\ limits = [lines |-> NodeLines, chunks |-> 1, cycles |-> MaxCycles + 1,
                 times |-> {75000}, codes |-> { [isNull |-> FALSE, n |-> 0] },
                 errors |-> {"spawn failed"}]
    /\ Fresh

SpecNodes == InitNodes /\ [][Next]_vars

\* SpecCalibrator: the calls of one calibrator from the module's first load on,
\* no invocation running
SpecCalibrator == InitAverage /\ [][CalibratorCall]_vars

\* SpecLog: the 'close' handler on every log of up to MaxLogLines lines of the
\* catalog, in a freshly loaded module
LogLines == {1, 2, 5, 6, 7, 8, 9, 10}

\* The 'close' event is about to arrive with the lines written
InitCloseOf(written, codes, derpMaps, outputs) ==
    /\ argWords = <<FlagOnce>>
    /\ envArgs = FlagOnce
    /\ envDerpMap \in derpMaps
    /\ envTimeout = TimeoutUnset
    /\ files = FileSystem
    /\ limits = [lines |-> written, chunks |-> MaxLogLines, cycles |-> 1, times |-> {},
                 codes |-> codes, errors |-> {}]
    /\ now = 10
    /\ nodeProbeHistory = EmptyMap
    /\ nodeLatencyCalibrators = EmptyMap
    /\ recorded = EmptyMap
    /\ cycle = 1
    /\ startedAt = 0
    /\ args = appendDerpMapArg(parseArgs(envArgs), envDerpMap)
    /\ timeoutMs = resolveTimeoutMs(configuredTimeoutMs(envTimeout), args)
    /\ regionIdMap = loadRegionIdMapFromDerpMap(envDerpMap, files)
    /\ chunks \in SeqsUpTo(written, MaxLogLines)
    /\ stderr = ChunksText(chunks)
    /\ stdout \in outputs
    /\ settled = FALSE
    /\ timerPending = TRUE
    /\ closeEmitted = FALSE
    /\ errorEmitted = FALSE
    /\ exitCode = NoExitCode
    /\ errorMessage = ""
    /\ kills = 0
    /\ resolveCalls = 0
    /\ outcome = "pending"
    /\ result = NoResult
    /\ overlapping = NotOverlapping

\* with the region table of DerpMapDocument and nothing on the output stream
InitLogOf(written, codes) == InitCloseOf(written, codes, { DerpMapFilePath }, { <<>> })

InitLog == InitLogOf(LogLines, ExitCodes)

SpecLog == InitLog /\ [][OnClose]_vars

\* SpecRegions: the 'close' handler on logs about nyc and sea, with the region map
\* unset, readable, absent, unreadable, no JSON, and without Regions
RegionLines == {1, 2, 5}
RegionMapEnvs ==
    { <<>>, DerpMapFilePath, <<"file://">> \o DerpMapFilePath, <<"/tmp/absent.json">>,
      UnreadableFilePath, InvalidJsonFilePath, <<"file://">> \o NoRegionsFilePath }

InitRegions == InitCloseOf(RegionLines, ExitCodes, RegionMapEnvs, { <<>> })

SpecRegions == InitRegions /\ [][OnClose]_vars

\* SpecIgnored: the 'close' handler on logs that mix lines about nyc-us-east with
\* lines the loop of the parser skips
IgnoredLines == {1, 6, 9, 10, 19}

InitIgnored == InitLogOf(IgnoredLines, { [isNull |-> FALSE, n |-> 0] })

SpecIgnored == InitIgnored /\ [][OnClose]_vars

\* SpecFlow: two invocations, each ended by 'close' with exit code 0 or 1 after at
\* most two lines about nyc-us-east and sea-us-west
FlowLines == {1, 2, 5, 11}

InitFlow ==
    /\ argWords = <<FlagOnce>>
    /\ envArgs = FlagOnce
    /\ envDerpMap = <<>>
    /\ envTimeout = TimeoutUnset
    /\ files = FileSystem
    /\ limits = [lines |-> FlowLines, chunks |-> 2, cycles |-> 2, times |-> {},
                 codes |-> { [isNull |-> FALSE, n |-> k] : k \in {0, 1} }, errors |-> {}]
    /\ Fresh

SpecFlow == InitFlow /\ [][Launch \/ StderrData \/ OnClose]_vars

\* SpecOverlap: requests that arrive while an earlier one is being served; the
\* two invocations write their logs and close in every order
OverlapLines == {1, 2, 11}

\* The two maps and the nodes of the last result after n invocations in a row
\* that each completed at time 0 with the log <<1>>
ServeOne(before) ==
    CHOOSE after \in
        { [nodes |-> updated.nodes, history |-> updated.history,
           calibrators |-> updated.calibrators,
           recorded |-> RecordCycle(before.recorded,
                                    parseNodesFromProbeLog(ChunksText(<<1>>), 0, EmptyMap),
                                    updated.nodes, 0)] :
          updated \in { updateNodeLossFromHistory(
                            parseNodesFromProbeLog(ChunksText(<<1>>), 0, EmptyMap),
                            before.history, before.calibrators, 0) } } : TRUE

RECURSIVE ServedCycles(_)
ServedCycles(n) ==
    IF n = 0
    THEN [nodes |-> <<>>, history |-> EmptyMap, calibrators |-> EmptyMap,
          recorded |-> EmptyMap]
    ELSE CHOOSE after \in { ServeOne(before) : before \in { ServedCycles(n - 1) } } : TRUE

\* The ninth invocation has just completed
NineCyclesServed ==
    \E served \in { ServedCycles(9) } :
        /\ now = 0
        /\ nodeProbeHistory = served.history
        /\ nodeLatencyCalibrators = served.calibrators
        /\ recorded = served.recorded
        /\ cycle = 9
        /\ startedAt = 0
        /\ args = appendDerpMapArg(parseArgs(envArgs), envDerpMap)
        /\ timeoutMs = resolveTimeoutMs(configuredTimeoutMs(envTimeout), args)
        /\ regionIdMap = loadRegionIdMapFromDerpMap(envDerpMap, files)
        /\ chunks = <<1>>
        /\ stderr = ChunksText(chunks)
        /\ stdout = <<>>
        /\ settled = TRUE
        /\ timerPending = FALSE
        /\ closeEmitted = TRUE
        /\ errorEmitted = FALSE
        /\ exitCode = [isNull |-> FALSE, n |-> 0]
        /\ errorMessage = ""
        /\ kills = 0
        /\ resolveCalls = 1
        /\ outcome = "Completed"
        /\ result = CompletedResult(exitCode, served.nodes)
        /\ overlapping = NotOverlapping

InitOverlap ==
    /\ argWords = <<FlagOnce>>
    /\ envArgs = FlagOnce
    /\ envDerpMap = <<>>
    /\ envTimeout = TimeoutUnset
    /\ files = FileSystem
    /\ \/ /\ limits = [lines |-> OverlapLines, chunks |-> 1, cycles |-> 2, times |-> {60000},
                        codes |-> { [isNull |-> FALSE, n |-> 0] }, errors |-> {}]
          /\ Fresh
       \/ /\ limits = [lines |-> OverlapLines, chunks |-> 1, cycles |-> 11, times |-> {60000},
                        codes |-> { [isNull |-> FALSE, n |-> 0] }, errors |-> {}]
          /\ NineCyclesServed

NextOverlap ==
    \/ Launch \/ Tick \/ StderrData \/ OnClose
    \/ LaunchOverlapping \/ StderrDataOverlapping \/ OnCloseOverlapping

SpecOverlap == InitOverlap /\ [][NextOverlap]_vars

\* SpecSort: the 'close' handler on logs of good lines about nodes whose sort key
\* comes from the name, the id, the region or from none of them
SortLines == {1, 3, 5, 12, 13, 14, 15, 16, 17, 18}

InitSort == InitLogOf(SortLines, { [isNull |-> FALSE, n |-> 0] })

SpecSort == InitSort /\ [][OnClose]_vars

-----------------------------------------------------------------------------
(* The raw-fallback variant (lines 511-1092): the JSON values of the output   *)
(* stream, pickNodeRecords, and its log parser.  Its summarize, its           *)
(* normalizeProbeMessage, stripLogPrefix, regionSortValue and its sort are    *)
(* the code of the smoothing variant, and are modelled by the same operators. *)

\* A JSON value, tagged by its type.  The keys of an object are in the order
\* of the document; numbers are whole.
JNull == [t |-> "null"]
JStr(s) == [t |-> "string", s |-> s]
JNum(n) == [t |-> "number", n |-> n]
JArr(items) == [t |-> "array", items |-> items]
JObj(keys, vals) == [t |-> "object", keys |-> keys, vals |-> vals]
JUndefined == [t |-> "undefined"]

\* obj[key]
Field(obj, key) ==
    IF \E i \in 1..Len(obj.keys) : obj.keys[i] = key
    THEN obj.vals[CHOOSE i \in 1..Len(obj.keys) : obj.keys[i] = key]
    ELSE JUndefined

\* lines 574-585: the value in the units of the document, or undefined
toNumber_v2(value) ==
    IF value.t = "number" THEN Some(value.n)
    ELSE IF value.t = "string" /\ NumberOf(value.s).finite THEN Some(NumberOf(value.s).value)
    ELSE Undef

\* (typeof obj.a === 'string' && obj.a) || (typeof obj.b === 'string' && obj.b) || ...:
\* the first of the fields that is a non-empty string, or <<>>
RECURSIVE FirstString(_, _)
FirstString(obj, keys) ==
    IF keys = <<>> THEN <<>>
    ELSE IF Field(obj, Head(keys)).t = "string" /\ Field(obj, Head(keys)).s # <<>>
    THEN Field(obj, Head(keys)).s
    ELSE FirstString(obj, Tail(keys))

\* toNumber(obj.a) ?? toNumber(obj.b) ?? ...
RECURSIVE FirstNumber(_, _)
FirstNumber(obj, keys) ==
    IF keys = <<>> THEN Undef
    ELSE IF toNumber_v2(Field(obj, Head(keys))).def THEN toNumber_v2(Field(obj, Head(keys)))
    ELSE FirstNumber(obj, Tail(keys))

\* as normalizeStatus, with a latency of exactly 180 ms still healthy
normalizeStatusAbove180(latencyMs, lossPct, err) ==
    IF err # <<>> THEN "down"
    ELSE IF ~latencyMs.def THEN "unknown"
    ELSE IF lossPct.def /\ lossPct.v >= 20 THEN "degraded"
    ELSE IF latencyMs.v > 180 THEN "degraded"
    ELSE "healthy"

\* lines 587-601; err is <<>> when undefined
normalizeStatus(latencyMs, lossPct, err) ==
    IF err # <<>> THEN "down"
    ELSE IF ~latencyMs.def THEN "unknown"
    ELSE IF lossPct.def /\ lossPct.v >= 20 THEN "degraded"
    ELSE IF latencyMs.v >= 180 THEN "degraded"
    ELSE "healthy"

\* lines 603-625: every object of the value, parents before children
RECURSIVE flattenObjects(_)
RECURSIVE FlattenAll(_)
flattenObjects(input) ==
    IF input.t = "array" THEN FlattenAll(input.items)
    ELSE IF input.t = "object" THEN <<input>> \o FlattenAll(input.vals)
    ELSE <<>>

FlattenAll(values) ==
    IF values = <<>> THEN <<>>
    ELSE flattenObjects(Head(values)) \o FlattenAll(Tail(values))

\* `${n}` for the node counts of the model
NumberText(n) == CASE n = 1 -> "1" [] n = 2 -> "2" [] n = 3 -> "3" [] n = 4 -> "4"

\* lines 634-687: the body of the loop; st is [seen, nodes]; the key of a
\* record without an identifier is its JSON text, kept here as the object.
\* Latencies are kept in hundredths of a millisecond, as in the log parser.
PickRecord(st, obj, checkedAt) ==
    LET id == FirstString(obj, <<"id", "node", "name", "regionCode">>)
        latencyMs == FirstNumber(obj, <<"latencyMs", "latency_ms", "latency", "pingMs">>)
        lossPct == FirstNumber(obj, <<"lossPct", "loss_pct", "packetLossPct">>)
        err == FirstString(obj, <<"error", "err", "message">>)
        key == [id |-> id, json |-> IF id # <<>> THEN JNull ELSE obj]
        n == NumberText(Len(st.nodes) + 1)
        name == FirstString(obj, <<"name", "nodeName">>)
    IN  IF id = <<>> /\ ~latencyMs.def /\ ~lossPct.def /\ err = <<>> THEN st
        ELSE IF key \in st.seen THEN st
        ELSE [seen |-> st.seen \cup {key},
              nodes |-> Append(st.nodes,
                 [id |-> IF id # <<>> THEN id ELSE <<"node", "-", n>>,
                  name |-> IF name # <<>> THEN name
                           ELSE IF id # <<>> THEN id ELSE <<"Node", " ", n>>,
                  region |-> FirstString(obj, <<"region", "regionName", "regionCode">>),
                  latencyMs |-> IF latencyMs.def THEN Some(100 * latencyMs.v) ELSE Undef,
                  lossPct |-> lossPct,
                  status |-> normalizeStatus(latencyMs, lossPct, err),
                  message |-> IF err # <<>> THEN SomeText(err) ELSE NoText,
                  checkedAt |-> checkedAt,
                  raw |-> obj])]

RECURSIVE PickRecords(_, _, _)
PickRecords(st, objects, checkedAt) ==
    IF objects = <<>> THEN st
    ELSE PickRecords(PickRecord(st, Head(objects), checkedAt), Tail(objects), checkedAt)

\* lines 627-690
pickNodeRecords(raw, checkedAt) ==
    PickRecords([seen |-> {}, nodes |-> <<>>], flattenObjects(raw), checkedAt).nodes

\* The texts the child writes on its output stream, one atom each, with the
\* value JSON.parse gives; ok is FALSE where JSON.parse throws
OutputCatalog ==
    << \* 1
       [text |-> <<"{\"id\":\"nyc\",\"latencyMs\":31}">>, ok |-> TRUE,
        json |-> JObj(<<"id", "latencyMs">>, <<JStr(Nyc), JNum(31)>>)],
       \* 2
       [text |-> <<"{\"id\":\"sea\",\"latency\":200,\"lossPct\":0}">>, ok |-> TRUE,
        json |-> JObj(<<"id", "latency", "lossPct">>, <<JStr(Sea), JNum(200), JNum(0)>>)],
       \* 3: no identifier
       [text |-> <<"{\"latency\":5}">>, ok |-> TRUE,
        json |-> JObj(<<"latency">>, <<JNum(5)>>)],
       \* 4: the identifier has the form of a generated one; the latency is a string
       [text |-> <<"{\"id\":\"node-1\",\"loss_pct\":25,\"pingMs\":\"10\"}">>, ok |-> TRUE,
        json |-> JObj(<<"id", "loss_pct", "pingMs">>,
                      <<JStr(<<"node", "-", "1">>), JNum(25), JStr(<<"10">>)>>)],
       \* 5
       [text |-> <<"{\"node\":\"lhr\",\"error\":\"timeout\",\"latencyMs\":10}">>, ok |-> TRUE,
        json |-> JObj(<<"node", "error", "latencyMs">>,
                      <<JStr(<<"lhr">>), JStr(<<"timeout">>), JNum(10)>>)],
       \* 6
       [text |-> <<"{\"name\":\"ams\"}">>, ok |-> TRUE,
        json |-> JObj(<<"name">>, <<JStr(<<"ams">>)>>)],
       \* 7
       [text |-> <<"not json">>, ok |-> FALSE, json |-> JNull],
       \* 8: an object with none of the fields read
       [text |-> <<"{\"version\":\"1.2\"}">>, ok |-> TRUE,
        json |-> JObj(<<"version">>, <<JStr(<<"1.2">>)>>)],
       \* 9: one identifier twice, in an array
       [text |-> <<"[{\"id\":\"nyc\",\"latencyMs\":31},{\"id\":\"nyc\",\"latencyMs\":40}]">>,
        ok |-> TRUE,
        json |-> JArr(<< JObj(<<"id", "latencyMs">>, <<JStr(Nyc), JNum(31)>>),
                         JObj(<<"id", "latencyMs">>, <<JStr(Nyc), JNum(40)>>) >>)],
       \* 10: a record inside an object whose own error text is empty
       [text |-> <<"{\"nodes\":[{\"id\":\"sea\",\"latencyMs\":180}],\"err\":\"\"}">>,
        ok |-> TRUE,
        json |-> JObj(<<"nodes", "err">>,
                      << JArr(<< JObj(<<"id", "latencyMs">>, <<JStr(Sea), JNum(180)>>) >>),
                         JStr(<<>>) >>)] >>

RECURSIVE OutputText(_)
OutputText(cs) ==
    IF cs = <<>> THEN <<>>
    ELSE OutputCatalog[Head(cs)].text \o <<"\n">> \o OutputText(Tail(cs))

\* JSON.parse: [ok, json]; a text of several catalog texts is no JSON document
JsonParse(text) ==
    IF \E i \in 1..Len(OutputCatalog) : OutputCatalog[i].text = text /\ OutputCatalog[i].ok
    THEN [ok |-> TRUE,
          json |-> OutputCatalog[CHOOSE i \in 1..Len(OutputCatalog) :
                                    OutputCatalog[i].text = text].json]
    ELSE [ok |-> FALSE, json |-> JNull]

RECURSIVE ParsedLines(_)
ParsedLines(lines) ==
    IF lines = <<>> THEN <<>>
    ELSE (IF JsonParse(Head(lines)).ok THEN <<JsonParse(Head(lines)).json>> ELSE <<>>)
            \o ParsedLines(Tail(lines))

\* lines 718-747
parseOutput(stdoutText) ==
    LET text == Trim(stdoutText)
        parsedLines == ParsedLines(SelectSeq(MapTrim(Split(text, "\n")), NonEmpty))
    IN  IF text = <<>> THEN JNull
        ELSE IF JsonParse(text).ok THEN JsonParse(text).json
        ELSE IF Len(parsedLines) > 0 THEN JArr(parsedLines)
        ELSE JObj(<<"text">>, <<JStr(text)>>)

\* lines 749-756: /([0-9]+(?:\.[0-9]+)?)ms/ and Math.round, in hundredths of a ms
parseLatencyMs_v2(text) ==
    LET whole(i) == DigitCount(At(text, i)) > 0 /\ At(text, i + 1) = "ms"
        frac(i) == /\ DigitCount(At(text, i)) > 0 /\ At(text, i + 1) = "."
                   /\ DigitCount(At(text, i + 2)) > 0 /\ At(text, i + 3) = "ms"
        starts == {i \in 1..Len(text) : whole(i) \/ frac(i)}
        i == Min(starts)
    IN  IF starts = {} THEN Undef
        ELSE IF frac(i)
        THEN Some(100 * RoundDiv(DigitValue(text[i]) * Pow10(DigitCount(text[i + 2]))
                                    + DigitValue(text[i + 2]),
                                 Pow10(DigitCount(text[i + 2]))))
        ELSE Some(100 * DigitValue(text[i]))

\* lines 840-884: the body of the loop over the lines, as AddLogLine
AddLogLine_v2(map, line) ==
    LET m == lineRegex(line)
        segments == Split(m.path, "/")
        probeType == segments[Len(segments)]
        id == NodeIdOf(segments[1], segments[2])
        k == IndexOfId(map, id)
        node == IF k > 0 THEN map[k]
                ELSE [id |-> id, name |-> segments[1], region |-> segments[2],
                      good |-> 0, bad |-> 0, badUdp6 |-> 0, nonUdp6Error |-> FALSE,
                      latencySamples |-> <<>>, messages |-> <<>>]
        unreachable == probeType = ProbeUdp6 /\ Includes(m.resultText, TextUnreachable)
        upd == IF m.level = "good"
               THEN [node EXCEPT
                       !.good = @ + 1,
                       !.latencySamples =
                           IF parseLatencyMs_v2(m.resultText).def
                           THEN Append(@, parseLatencyMs_v2(m.resultText).v) ELSE @]
               ELSE [node EXCEPT
                       !.bad = @ + 1,
                       !.messages = Append(@, normalizeProbeMessage(probeType, m.resultText)),
                       !.badUdp6 = IF unreachable THEN @ + 1 ELSE @,
                       !.nonUdp6Error = IF unreachable THEN @ ELSE TRUE]
    IN  IF ~m.ok THEN map
        ELSE IF Len(segments) < 3 THEN map
        ELSE IF k > 0 THEN [map EXCEPT ![k] = upd] ELSE Append(map, upd)

RECURSIVE AggregateLines_v2(_, _)
AggregateLines_v2(lines, map) ==
    IF lines = <<>> THEN map
    ELSE AggregateLines_v2(Tail(lines), AddLogLine_v2(map, Head(lines)))

RECURSIVE SumSamples(_)
SumSamples(samples) == IF samples = <<>> THEN 0 ELSE Head(samples) + SumSamples(Tail(samples))

\* lines 902-929: the latency is the rounded mean of the samples, in whole ms
ResultNode_v2(node, checkedAt) ==
    [id |-> node.id, name |-> node.name, region |-> node.region,
     latencyMs |-> IF Len(node.latencySamples) > 0
                   THEN Some(100 * RoundDiv(SumSamples(node.latencySamples),
                                            100 * Len(node.latencySamples)))
                   ELSE Undef,
     status |-> NodeStatus(node),
     message |-> IF Len(node.messages) > 0
                 THEN SomeText(JoinTexts(node.messages, <<" ", "|", " ">>))
                 ELSE NoText,
     checkedAt |-> checkedAt]

\* lines 816-941
parseNodesFromProbeLog_v2(stderrText, checkedAt, regionIds) ==
    LET map == AggregateLines_v2(LogLinesOf(stderrText), <<>>) IN
    SortNodes([i \in 1..Len(map) |-> ResultNode_v2(map[i], checkedAt)], <<>>, regionIds)

\* as isIpv6OnlyProbeFailure, without the test for 'write udp [::]' or 'dial udp [::]'
isIpv6OnlyProbeFailureUnmarked(stderrText) ==
    LET lines == LogLinesOf(stderrText)
        isBad(l) == StartsWith(l, <<"bad", ":", " ", "derp", "/">>)
        isGood(l) == StartsWith(l, <<"good", ":", " ", "derp", "/">>)
        udp6(l) == Includes(l, <<"/", "udp6", ":">>)
        badLines == SelectSeq(lines, isBad)
    IN  /\ Len(badLines) > 0
        /\ ~\E i \in 1..Len(lines) : isGood(lines[i]) /\ udp6(lines[i])
        /\ \E i \in 1..Len(lines) : isGood(lines[i]) /\ ~udp6(lines[i])
        /\ \A i \in 1..Len(badLines) :
              udp6(badLines[i]) /\ Includes(badLines[i], TextUnreachable)

\* lines 943-976
isIpv6OnlyProbeFailure(stderrText) ==
    LET lines == LogLinesOf(stderrText)
        isBad(l) == StartsWith(l, <<"bad", ":", " ", "derp", "/">>)
        isGood(l) == StartsWith(l, <<"good", ":", " ", "derp", "/">>)
        udp6(l) == Includes(l, <<"/", "udp6", ":">>)
        badLines == SelectSeq(lines, isBad)
    IN  /\ Len(badLines) > 0
        /\ ~\E i \in 1..Len(lines) : isGood(lines[i]) /\ udp6(lines[i])
        /\ \E i \in 1..Len(lines) : isGood(lines[i]) /\ ~udp6(lines[i])
        /\ \A i \in 1..Len(badLines) :
              udp6(badLines[i]) /\ Includes(badLines[i], TextUnreachable)
        /\ \A i \in 1..Len(badLines) :
              Includes(badLines[i], TextWriteUdp) \/ Includes(badLines[i], TextDialUdp)

\* as CompletedResult_v2, with the nodes of the log whenever it has any
CompletedResult_v2LogFirst(code) ==
    LET raw == parseOutput(stdout)
        logNodes == parseNodesFromProbeLog_v2(stderr, now, regionIdMap)
        nodes == IF Len(logNodes) > 0 THEN logNodes ELSE pickNodeRecords(raw, now)
        ok == ~code.isNull /\ (code.n = 0 \/ (code.n = 1 /\ isIpv6OnlyProbeFailure(stderr)))
    IN  [resolved |-> TRUE, ok |-> ok, checkedAt |-> now, durationMs |-> now - startedAt,
         summary |-> summarize(nodes), nodes |-> nodes,
         stderr |-> IF Trim(stderr) # <<>> THEN SomeText(Trim(stderr)) ELSE NoText,
         error |-> ExitError(ok, code), raw |-> raw]

\* lines 1066-1090: the result of the 'close' handler of the raw-fallback variant
CompletedResult_v2(code) ==
    LET raw == parseOutput(stdout)
        rawNodes == pickNodeRecords(raw, now)
        nodes == IF Len(rawNodes) > 0 THEN rawNodes
                 ELSE parseNodesFromProbeLog_v2(stderr, now, regionIdMap)
        ok == ~code.isNull /\ (code.n = 0 \/ (code.n = 1 /\ isIpv6OnlyProbeFailure(stderr)))
    IN  [resolved |-> TRUE, ok |-> ok, checkedAt |-> now, durationMs |-> now - startedAt,
         summary |-> summarize(nodes), nodes |-> nodes,
         stderr |-> IF Trim(stderr) # <<>> THEN SomeText(Trim(stderr)) ELSE NoText,
         error |-> ExitError(ok, code), raw |-> raw]

\* lines 1056-1090: the 'close' listener of the raw-fallback variant, which keeps
\* no history and no calibrator
OnClose_v2 ==
    /\ cycle > 0
    /\ ~closeEmitted
    /\ closeEmitted' = TRUE
    /\ exitCode' \in limits.codes
    /\ IF settled
       THEN UNCHANGED promiseVars
       ELSE /\ timerPending' = FALSE
            /\ settled' = TRUE
            /\ outcome' = "Completed"
            /\ Resolve(CompletedResult_v2(exitCode'))
            /\ UNCHANGED kills
    /\ UNCHANGED <<envVars, overlapping, now, processVars, launchVars, stderr, stdout, chunks,
                   errorEmitted, errorMessage>>

\* SpecRaw: the 'close' handler of the raw-fallback variant on every output of up
\* to MaxOutputLines texts of the catalog and every log of up to MaxLogLines lines
RawLogLines == {1, 7}
RawCodes == { [isNull |-> FALSE, n |-> k] : k \in {0, 1} }
Outputs == { OutputText(cs) : cs \in SeqsUpTo(1..Len(OutputCatalog), MaxOutputLines) }

InitRaw == InitCloseOf(RawLogLines, RawCodes, { DerpMapFilePath }, Outputs)

SpecRaw == InitRaw /\ [][OnClose_v2]_vars

\* SpecLenient: the 'close' handler of the raw-fallback variant with every exit
\* code, on logs of good and bad lines with and without udp6, and an output
\* stream that is empty or names one node
LenientLines == {1, 2, 5, 6, 7, 9, 20}

InitLenient ==
    InitCloseOf(LenientLines, ExitCodes, { DerpMapFilePath }, { <<>>, OutputText(<<1>>) })

SpecLenient == InitLenient /\ [][OnClose_v2]_vars

-----------------------------------------------------------------------------
(* The supervisor: claims C1 to C5 and C9, checked under Spec               *)

\* C1: in one invocation the result is resolved exactly once, whatever the order
\* of the timer, the 'error' event and the 'close' event: resolve is called at
\* most once; the step that resolves fixes the outcome to the handler that ran;
\* and every later step leaves the result, the outcome, the kill count and the
\* two process-wide maps as they are.
C1_ResolvedExactlyOnce ==
    [][ /\ resolveCalls' <= 1
        /\ (result = NoResult /\ result' # NoResult) =>
              /\ resolveCalls' = 1 /\ settled'
              /\ outcome = "pending"
              /\ outcome' \in {"TimedOut", "LaunchFailed", "Completed"}
        /\ (result # NoResult /\ cycle' = cycle) =>
              /\ result' = result /\ outcome' = outcome /\ kills' = kills
              /\ settled' /\ resolveCalls' = 1
              /\ nodeProbeHistory' = nodeProbeHistory
              /\ nodeLatencyCalibrators' = nodeLatencyCalibrators
        /\ (result' = NoResult) => (outcome' = "pending" /\ ~settled') ]_vars

\* C1 witness: the timer resolved the result and both child events came after it
C1_Witness ==
    /\ outcome = "TimedOut" /\ resolveCalls = 1
    /\ closeEmitted /\ errorEmitted
    /\ result.error.text = "derpprobe timed out after <n>ms"

\* C2: when the timer's callback resolves the result, the result is ok=false with
\* no nodes, the all-zero summary with avgLatencyMs null, the error 'derpprobe timed
\* out after <timeoutMs>ms' and as stderr exactly the text captured so far (the lines
\* the child has written, untrimmed); the captured lines are not parsed: the
\* process-wide maps are untouched.
C2_TimedOutResult ==
    [][ (outcome = "pending" /\ outcome' = "TimedOut") =>
          /\ result'.ok = FALSE
          /\ result'.nodes = <<>>
          /\ result'.summary = [total |-> 0, healthy |-> 0, degraded |-> 0, down |-> 0,
                                unknown |-> 0, avgLatencyMs |-> Undef]
          /\ result'.error = [def |-> TRUE, text |-> "derpprobe timed out after <n>ms",
                              n |-> timeoutMs]
          /\ result'.stderr = [def |-> TRUE, text |-> ChunksText(chunks)]
          /\ ~closeEmitted /\ ~errorEmitted
          /\ nodeProbeHistory' = nodeProbeHistory
          /\ nodeLatencyCalibrators' = nodeLatencyCalibrators ]_vars

\* C2 witness: a timeout after the child wrote a good line and a bad line
C2_Witness ==
    /\ outcome = "TimedOut"
    /\ Len(result.stderr.text) > 0
    /\ \E i, j \in 1..Len(chunks) :
          LogCatalog[chunks[i]].level = "good" /\ LogCatalog[chunks[j]].level = "bad"
    /\ result.stderr.text = ChunksText(chunks)

\* C3: the child is sent SIGTERM exactly once in an invocation that resolves as
\* TimedOut, and never in one that is pending or resolves as Completed or
\* LaunchFailed, also after the timer's period has passed.
C3_KillOnlyOnTimeout ==
    /\ outcome = "TimedOut" => kills = 1
    /\ outcome \in {"pending", "Completed", "LaunchFailed"} => kills = 0

\* C3 witness: a Completed invocation whose timer period elapsed after the resolution
C3_Witness ==
    /\ outcome = "Completed"
    /\ result.durationMs < timeoutMs
    /\ now - startedAt >= timeoutMs
    /\ kills = 0

\* C4: when the 'error' event is the first to fire, the result is ok=false with no
\* nodes, the all-zero summary and the event's message as error; the captured text
\* is not parsed (the process-wide maps stay empty), also when 'close' follows.
C4_LaunchFailedResult ==
    outcome = "LaunchFailed" =>
        /\ result.ok = FALSE
        /\ result.nodes = <<>>
        /\ result.summary.total = 0
        /\ result.summary = EmptySummary
        /\ result.error = [def |-> TRUE, text |-> errorMessage, n |-> 0]
        /\ errorMessage \in LaunchErrors
        /\ nodeProbeHistory = EmptyMap
        /\ nodeLatencyCalibrators = EmptyMap

\* C4 witness: the launch failed after a line of the grammar was captured, and
\* 'close' followed
C4_Witness ==
    /\ outcome = "LaunchFailed"
    /\ closeEmitted
    /\ \E i \in 1..Len(chunks) : LogCatalog[chunks[i]].level # "none"
    /\ result.stderr.text # <<>>

\* The single-shot words of the model's argument texts
OnceWords == { FlagOnce, FlagOnceLong, FlagOnce \o <<"=", "true">>,
               FlagOnceLong \o <<"=", "true">> }

\* The timeout configured by DERPPROBE_TIMEOUT_MS, read off the environment
ConfiguredByEnv ==
    IF envTimeout = TimeoutText(<<"10">>) THEN 10 ELSE 75000

\* The argument list holds a single-shot flag: a word of the text is one, or the
\* text is blank and the list is the default ['-once']
SingleShotRequested ==
    \/ argWords = <<>>
    \/ \E i \in 1..Len(argWords) : argWords[i] \in OnceWords

EffectiveTimeout ==
    IF SingleShotRequested /\ ConfiguredByEnv < 65000 THEN 65000 ELSE ConfiguredByEnv

\* C5: the timeout handed to the timer is 65000 ms when the argument list holds a
\* single-shot flag and the configured timeout is below 65000 ms, and the configured
\* timeout otherwise; a TimedOut result (and with it the kill) never comes before
\* that much time has passed since the launch.
C5_EffectiveTimeout ==
    cycle > 0 =>
        /\ timeoutMs = EffectiveTimeout
        /\ outcome = "TimedOut" => result.durationMs >= EffectiveTimeout
        /\ kills > 0 => (outcome = "TimedOut" /\ result.durationMs >= EffectiveTimeout)

\* C5 witness: -once (also as --once=true) with 10 ms configured, timed out at 65000 ms
C5_Witness ==
    /\ outcome = "TimedOut"
    /\ envTimeout = TimeoutText(<<"10">>)
    /\ argWords = <<FlagOnceLong \o <<"=", "true">>>>
    /\ result.durationMs = 65000
    /\ kills = 1

\* C9: for a Completed outcome, ok is true iff the exit code is 0, or is 1 and every
\* node of the result is healthy; a not-ok result of a numeric code has the error
\* 'derpprobe exited with code <code>', of a null code 'derpprobe exited with an
\* unknown error'; the error is absent exactly when ok is true.
C9_ExitCodeDecidesOk ==
    outcome = "Completed" =>
        LET allHealthy == \A i \in 1..Len(result.nodes) : result.nodes[i].status = "healthy"
            code == exitCode
        IN  /\ result.ok <=> (~code.isNull /\ (code.n = 0 \/ (code.n = 1 /\ allHealthy)))
            /\ (~result.ok /\ ~code.isNull) =>
                   result.error = [def |-> TRUE, text |-> "derpprobe exited with code <n>",
                                   n |-> code.n]
            /\ code.isNull =>
                   /\ ~result.ok
                   /\ result.error = [def |-> TRUE,
                                      text |-> "derpprobe exited with an unknown error",
                                      n |-> 0]
            /\ result.error.def <=> ~result.ok

\* C9 witness: exit code 1 with a node that is not healthy, so not ok
C9_Witness ==
    /\ outcome = "Completed"
    /\ exitCode = [isNull |-> FALSE, n |-> 1]
    /\ result.ok
    /\ Len(result.nodes) = 2
    /\ \A i \in 1..Len(result.nodes) : result.nodes[i].status = "healthy"

-----------------------------------------------------------------------------
(* Argument assembly: claims C6 and C7, checked under SpecArgs              *)

\* The words that request raw structured output: -json, --json, and either with
\* a value
JsonWords == { FlagJson, FlagJsonLong, FlagJson \o <<"=", "true">>,
               FlagJsonLong \o <<"=", "true">> }

IsOtherWord(word) == word \notin JsonWords

\* The words that give a region map: -derp-map, --derp-map, and either with a value
DerpMapWords == { FlagDerpMap, FlagDerpMapLong, FlagDerpMap \o <<"=", "/m.json">>,
                  FlagDerpMapLong \o <<"=", "/m.json">> }

\* The arguments assembled from the text, before the region map is appended
AssembledFromText ==
    IF (\E i \in 1..Len(argWords) : argWords[i] \in DerpMapWords) \/ Trim(envDerpMap) = <<>>
    THEN args
    ELSE SubSeq(args, 1, Len(args) - 2)

\* C6: the argument list of the external process holds no word that requests raw
\* structured output (-json, --json, or either with an =value suffix), every other
\* word of the text is kept in its order, and a blank text gives ['-once'].
C6_NoJsonRequestPassed ==
    cycle > 0 =>
        /\ \A i \in 1..Len(args) : args[i] \notin JsonWords
        /\ AssembledFromText =
              IF argWords = <<>> THEN <<FlagOnce>> ELSE SelectSeq(argWords, IsOtherWord)

\* C6 counterpart for what the code does: -json=<value> is the one request that is
\* passed on; every other part of the claim holds.
C6_OnlySingleDashValueFormPassed ==
    cycle > 0 =>
        /\ \A i \in 1..Len(args) :
              args[i] \in JsonWords => args[i] = FlagJson \o <<"=", "true">>
        /\ LET kept(word) == IsOtherWord(word) \/ word = FlagJson \o <<"=", "true">>
           IN  AssembledFromText =
                  IF argWords = <<>> THEN <<FlagOnce>> ELSE SelectSeq(argWords, kept)

\* C6 witness: the text holds -json=true beside another word, and the process is
\* handed both
C6_Witness ==
    /\ cycle > 0
    /\ argWords = <<FlagJson \o <<"=", "true">>, <<"-", "-", "foo">>, FlagJsonLong>>
    /\ args = <<FlagJson \o <<"=", "true">>, <<"-", "-", "foo">>>>

\* C7: '-derp-map' and the trimmed location are appended at the end of the list iff
\* a non-blank location is configured and no word of the list is a -derp-map or
\* --derp-map flag, bare or with a value; otherwise the list is as assembled from
\* the text; an appended flag is the only flag of the list.
C7_DerpMapAppendedIffAbsent ==
    cycle > 0 =>
        LET base == parseArgs(envArgs)
            configured == \E i \in 1..Len(envDerpMap) : envDerpMap[i] \notin {" ", "\t"}
            present == \E i \in 1..Len(argWords) : argWords[i] \in DerpMapWords
        IN  IF configured /\ ~present
            THEN /\ args = base \o <<FlagDerpMap, DerpMapFilePath>>
                 /\ \A i \in 1..Len(base) : base[i] \notin DerpMapWords
            ELSE args = base

\* C7 witness: a location padded with blanks is appended, trimmed, after a word
C7_Witness ==
    /\ cycle > 0
    /\ envDerpMap = <<" ">> \o DerpMapFilePath \o <<" ">>
    /\ argWords = <<FlagOnce>>
    /\ args = <<FlagOnce, FlagDerpMap, DerpMapFilePath>>

-----------------------------------------------------------------------------
(* The log parser: claim C8 under SpecCycles, claim C10 under SpecLog       *)

\* The lines of the grammar among the lines written in this invocation
GrammarChunks == { i \in 1..Len(chunks) : LogCatalog[chunks[i]].level # "none" }

\* The (a, b) pairs of those lines, and the id each pair is written as
PairsWritten == { <<LogCatalog[chunks[i]].a, LogCatalog[chunks[i]].b>> : i \in GrammarChunks }
IdOfPair(pair) == pair[1] \o <<"-">> \o pair[2]
IdsWritten == { IdOfPair(pair) : pair \in PairsWritten }

ResultIds == { result.nodes[i].id : i \in 1..Len(result.nodes) }

\* Only lines 'good: derp/<a>/<b>/udp: <n>ms' were written
GoodUdpOnly ==
    \A i \in 1..Len(chunks) :
        LogCatalog[chunks[i]].level = "good" /\ LogCatalog[chunks[i]].probe = "udp"

ChunksOfId(id) ==
    { i \in GrammarChunks : IdOfPair(<<LogCatalog[chunks[i]].a, LogCatalog[chunks[i]].b>>) = id }

IsUdp6Unreachable(i) ==
    /\ LogCatalog[chunks[i]].level = "bad"
    /\ LogCatalog[chunks[i]].probe = "udp6"
    /\ LogCatalog[chunks[i]].unreach

\* The cycle's udp6 failures are attributed to the host having no IPv6: the
\* parser's classification of the whole log
HostLevelAttributed == \E i \in 1..Len(chunks) : LogCatalog[chunks[i]].marker

StatusByRule(id) ==
    LET good == { i \in ChunksOfId(id) : LogCatalog[chunks[i]].level = "good" }
        bad == { i \in ChunksOfId(id) : LogCatalog[chunks[i]].level = "bad" }
    IN  IF (\E i \in bad : ~IsUdp6Unreachable(i)) \/ (bad # {} /\ good = {}) THEN "down"
        ELSE IF (\E i \in bad : IsUdp6Unreachable(i)) /\ ~HostLevelAttributed THEN "degraded"
        ELSE IF good # {} THEN "healthy"
        ELSE "unknown"

-----------------------------------------------------------------------------
(* The classification of udp6 failures: claim C11, checked under SpecLog    *)

BadChunks == { i \in GrammarChunks : LogCatalog[chunks[i]].level = "bad" }

\* Every bad line of the cycle is a udp6 'network is unreachable' failure with
\* the write/dial udp [::] text
EveryBadLineIsHostLevel ==
    /\ BadChunks # {}
    /\ \A i \in BadChunks : IsUdp6Unreachable(i) /\ LogCatalog[chunks[i]].marker

\* A node with a good line whose only bad lines are udp6-unreachable failures
OnlyUdp6Failures(id) ==
    /\ \E i \in ChunksOfId(id) : LogCatalog[chunks[i]].level = "good"
    /\ \E i \in ChunksOfId(id) : IsUdp6Unreachable(i)
    /\ \A i \in ChunksOfId(id) : LogCatalog[chunks[i]].level = "bad" => IsUdp6Unreachable(i)

\* C11: the udp6-unreachable failures of a cycle are excluded from degraded only
\* if every bad line of the cycle is a udp6 'network is unreachable' failure with
\* the write/dial udp [::] text: a node with a good line and only udp6-unreachable
\* failures is healthy in such a cycle, and degraded in a cycle that holds any
\* other bad line.
C11_HostLevelOnlyIfEveryBadLine ==
    outcome = "Completed" =>
        \A i \in 1..Len(result.nodes) :
            OnlyUdp6Failures(result.nodes[i].id) =>
                result.nodes[i].status =
                    IF EveryBadLineIsHostLevel THEN "healthy" ELSE "degraded"

\* C11 witness: sea has a good line and a udp6 failure with the write udp [::]
\* text, nyc has a tcp failure in the same cycle, and sea is reported healthy
C11_Witness ==
    /\ outcome = "Completed"
    /\ chunks = <<5, 7, 2>>
    /\ ~EveryBadLineIsHostLevel
    /\ \E i \in 1..Len(result.nodes) :
          /\ result.nodes[i].id = IdOfPair(<<Sea, UsWest>>)
          /\ OnlyUdp6Failures(result.nodes[i].id)
          /\ result.nodes[i].status = "healthy"

-----------------------------------------------------------------------------
(* The probe history: claims C12 and C13, checked under SpecHistory         *)

\* The samples of a node as the history keeps them: success and stored latency
AsHistorySample(sample) == [success |-> sample.success, latencyMs |-> sample.latencyMs]

\* The most recent samples of a node, ten at most, oldest first
LastTenRecorded(id) ==
    LET all == recorded[id]
        first == IF Len(all) > 10 THEN Len(all) - 9 ELSE 1
    IN  [k \in 1..(Len(all) - first + 1) |-> AsHistorySample(all[first + k - 1])]

\* C12: whatever cycles have run, the history of every node id holds at most 10
\* samples, and they are the samples of the most recent (up to 10) Completed
\* cycles in which the node appeared, oldest first.
C12_WindowIsLastTenSamples ==
    /\ DOMAIN nodeProbeHistory = DOMAIN recorded
    /\ \A id \in DOMAIN nodeProbeHistory :
          /\ Len(nodeProbeHistory[id]) <= 10
          /\ nodeProbeHistory[id] = LastTenRecorded(id)

\* C12 witness: the node appeared in 11 Completed cycles, down in the first and
\* healthy since, and the failure is no longer in its window
C12_Witness ==
    \E id \in DOMAIN recorded :
        /\ Len(recorded[id]) = 11
        /\ ~recorded[id][1].success
        /\ Len(nodeProbeHistory[id]) = 10
        /\ \A k \in 1..10 : nodeProbeHistory[id][k].success

\* The failures among the samples of the node's window, by the status of the cycles
WindowFailures(id) ==
    Cardinality({ k \in 1..Len(LastTenRecorded(id)) : ~LastTenRecorded(id)[k].success })

\* r is x/y rounded to the nearest integer, halves upwards
IsRounded(r, x, y) == 2 * y * r <= 2 * x + y /\ 2 * x + y < 2 * y * (r + 1)

\* C13: after a Completed cycle the lossPct of each node is
\* round((1 - successes / length) * 100) over the node's window, the cycle itself
\* included, a sample being a success iff the status of its cycle was healthy or
\* degraded; it is an integer of 0..100, and 30 for 10 samples with 3 failures.
C13_LossPctOfWindow ==
    outcome = "Completed" =>
        \A i \in 1..Len(result.nodes) :
            LET node == result.nodes[i]
                length == Len(nodeProbeHistory[node.id])
                failures == WindowFailures(node.id)
            IN  /\ node.lossPct.def
                /\ node.lossPct.v \in 0..100
                /\ length \in 1..10
                /\ recorded[node.id][Len(recorded[node.id])].success
                      = (node.status \in {"healthy", "degraded"})
                /\ IsRounded(node.lossPct.v, 100 * failures, length)
                /\ (length = 10 /\ failures = 3) => node.lossPct.v = 30

\* C13 witness: a window of 10 samples with 7 successes and 3 failures, lossPct 30
C13_Witness ==
    /\ outcome = "Completed"
    /\ Len(result.nodes) = 1
    /\ Len(nodeProbeHistory[result.nodes[1].id]) = 10
    /\ WindowFailures(result.nodes[1].id) = 3
    /\ result.nodes[1].lossPct = Some(30)

-----------------------------------------------------------------------------
(* The average latency: claim C14, checked under SpecAverage                *)

\* The samples of the node's window that carry a latency
WindowLatencies(id) == SelectSeq(LastTenRecorded(id), HasLatency)

\* C14 as stated: after a Completed cycle the average latency of each node is the
\* mean of the latencies present in its window, and it is undefined when no
\* sample of the window carries a latency.
C14_AverageIsMeanOfPresent ==
    outcome = "Completed" =>
        \A i \in 1..Len(result.nodes) :
            LET node == result.nodes[i]
                present == WindowLatencies(node.id)
            IN  IF present = <<>> THEN ~node.avgLatencyMs.def
                ELSE /\ node.avgLatencyMs.def
                     /\ node.avgLatencyMs.v * Len(present) = SumLatency(present)

\* C14, amended: after a Completed cycle the average latency of each node is the
\* mean of the latencies present in its window (samples without one are skipped),
\* rounded to the nearest integer when the mean is at least 1 ms and to two
\* decimals below that; it is undefined, not 0, when no sample of the window
\* carries a latency.
C14_AverageIsRoundedMeanOfPresent ==
    outcome = "Completed" =>
        \A i \in 1..Len(result.nodes) :
            LET node == result.nodes[i]
                present == WindowLatencies(node.id)
                total == SumLatency(present)
                avg == node.avgLatencyMs
            IN  IF present = <<>> THEN ~avg.def
                ELSE /\ avg.def
                     /\ IF total >= 100 * Len(present)
                        THEN \E ms \in 1..31 :
                                /\ avg.v = 100 * ms
                                /\ IsRounded(ms, total, 100 * Len(present))
                        ELSE IsRounded(avg.v, total, Len(present))

\* C14 witness: a window of a failure without latency and the delays 21 ms and
\* 0.25 ms, whose mean 10.625 ms is reported as 11 ms
C14_Witness ==
    /\ outcome = "Completed"
    /\ Len(result.nodes) = 1
    /\ Len(LastTenRecorded(result.nodes[1].id)) = 3
    /\ Len(WindowLatencies(result.nodes[1].id)) = 2
    /\ SumLatency(WindowLatencies(result.nodes[1].id)) = 2125
    /\ result.nodes[1].avgLatencyMs = Some(1100)

-----------------------------------------------------------------------------
(* The latency calibrator: claims C15, C16 and C17, checked under           *)
(* SpecCalibrator                                                           *)

\* The calls made so far, oldest first: round trip, time and delay returned
Calls == IF CalibratedId \in DOMAIN recorded THEN recorded[CalibratedId] ELSE <<>>

\* The least round trip among the first k calls whose age at the k-th is at most
\* the window, the k-th included
WindowMinimumAt(k) ==
    Min({ Calls[j].rtt.v : j \in { i \in 1..k : Calls[k].at - Calls[i].at <= 10 * 60 * 1000 } })

\* C15: for calls with non-decreasing timestamps, the baseline read after the new
\* sample was inserted (the front of the window, the warm-up cap left aside) is
\* the least round trip among all samples, the new one included, whose age is at
\* most the 10-minute window.
C15_BaselineIsWindowMinimum ==
    Calls # <<>> =>
        /\ \A k \in 2..Len(Calls) : Calls[k - 1].at <= Calls[k].at
        /\ now = Calls[Len(Calls)].at
        /\ nodeLatencyCalibrators[CalibratedId].deque[1].rtt = WindowMinimumAt(Len(Calls))

\* C15 witness: a smaller sample has left the window by age, samples pushed after
\* it remain, and an older one is the baseline
C15_Witness ==
    /\ Len(Calls) >= 3
    /\ \E j \in 1..Len(Calls) :
          /\ now - Calls[j].at > 10 * 60 * 1000
          /\ Calls[j].rtt.v < WindowMinimumAt(Len(Calls))
    /\ Len(nodeLatencyCalibrators[CalibratedId].deque) >= 2
    /\ WindowMinimumAt(Len(Calls)) < Calls[Len(Calls)].rtt.v

\* C16: when the round trip is the same constant in every call, every delay
\* returned once the 2-minute warm-up period has elapsed is 0.
C16_ConstantRttGivesZeroDelay ==
    (\A k \in 1..Len(Calls) : Calls[k].rtt = Calls[1].rtt) =>
        \A k \in 1..Len(Calls) :
            Calls[k].at - Calls[1].at >= 2 * 60 * 1000 => Calls[k].latencyMs = Some(0)

\* C16 witness: a constant round trip of 30 ms, reported as 20 ms during the
\* warm-up and as 0 in two calls after it
C16_Witness ==
    /\ Len(Calls) = 4
    /\ \A k \in 1..4 : Calls[k].rtt = Some(3000)
    /\ Calls[2].at - Calls[1].at < 2 * 60 * 1000 /\ Calls[2].latencyMs = Some(2000)
    /\ Calls[3].at - Calls[1].at >= 2 * 60 * 1000 /\ Calls[3].latencyMs = Some(0)
    /\ Calls[4].latencyMs = Some(0)

\* The baseline of the k-th call by the rule of the claim
BaselineAt(k) ==
    IF Calls[k].at - Calls[1].at < 2 * 60 * 1000 /\ WindowMinimumAt(k) > 10 * 100
    THEN 10 * 100
    ELSE WindowMinimumAt(k)

\* C17: the value a call returns is max(0, rtt - baseline), the baseline being
\* min(window minimum, 10 ms) during the first 2 minutes after the calibrator's
\* creation and the window minimum afterwards; it is never negative and never
\* above the round trip.
C17_DelayIsRttMinusBaseline ==
    \A k \in 1..Len(Calls) :
        /\ Calls[k].latencyMs.def
        /\ Calls[k].latencyMs.v =
              (IF Calls[k].rtt.v - BaselineAt(k) > 0 THEN Calls[k].rtt.v - BaselineAt(k) ELSE 0)
        /\ Calls[k].latencyMs.v >= 0
        /\ Calls[k].latencyMs.v <= Calls[k].rtt.v

\* C17 witness: a call in the warm-up whose window minimum of 15 ms is capped at
\* 10 ms, and a call after it whose baseline is the window minimum
C17_Witness ==
    /\ Len(Calls) >= 2
    /\ Calls[1].rtt = Some(1500) /\ Calls[1].latencyMs = Some(500)
    /\ \E k \in 2..Len(Calls) :
          /\ Calls[k].at - Calls[1].at >= 2 * 60 * 1000
          /\ Calls[k].rtt = Some(3000)
          /\ WindowMinimumAt(k) = 1500
          /\ Calls[k].latencyMs = Some(1500)

-----------------------------------------------------------------------------
(* The calibrators of the process: claim C18, checked under SpecNodes       *)

\* The step resolves the invocation as Completed
CompletedStep == ~settled /\ settled' /\ outcome' = "Completed"

\* The round trips the parser read in the log of the invocation, by node id
ParsedRtts ==
    { <<CompletedParse[i].id, CompletedParse[i].latencyMs.v>> :
        i \in { j \in 1..Len(CompletedParse) : CompletedParse[j].latencyMs.def } }

\* part is a run of consecutive samples of deque
IsRunOf(part, deque) ==
    \E first \in 1..(Len(deque) + 1) :
        /\ first + Len(part) - 1 <= Len(deque)
        /\ \A k \in 1..Len(part) : part[k] = deque[first + k - 1]

\* C18: calibrator state is per node id and never reset. In every step, a node
\* id's calibrator changes only when the step resolves a Completed cycle whose log
\* gave that node a numeric latency: it is created then if the id had none, it
\* keeps its creation time, its window gains that node's own sample and otherwise
\* holds samples the same window held before. In every other step (the node
\* absent or without latency, the cycle timed out or failed to launch) the node's
\* calibrator is unchanged, and no calibrator is ever removed.
C18_CalibratorPerNodeNeverReset ==
    [][ /\ DOMAIN nodeLatencyCalibrators \subseteq DOMAIN nodeLatencyCalibrators'
        /\ \A id \in DOMAIN nodeLatencyCalibrators' :
              IF CompletedStep /\ \E p \in ParsedRtts : p[1] = id
              THEN \E p \in ParsedRtts :
                      /\ p[1] = id
                      /\ \E old \in {IF id \in DOMAIN nodeLatencyCalibrators
                                     THEN nodeLatencyCalibrators[id]
                                     ELSE [startTime |-> now, deque |-> <<>>]} :
                         \E new \in {nodeLatencyCalibrators'[id]} :
                            /\ new.startTime = old.startTime
                            /\ new.deque # <<>>
                            /\ new.deque[Len(new.deque)] = [timestamp |-> now, rtt |-> p[2]]
                            /\ IsRunOf(SubSeq(new.deque, 1, Len(new.deque) - 1), old.deque)
              ELSE /\ id \in DOMAIN nodeLatencyCalibrators
                   /\ nodeLatencyCalibrators'[id] = nodeLatencyCalibrators[id]
      ]_vars

\* C18 witness: the third cycle has ended; nyc-us-east was sampled in a first
\* cycle and again after a cycle without it, and its window holds both samples
\* under the creation time of the first; sea-us-west has a calibrator of its own
C18_Witness ==
    /\ cycle = 3
    /\ outcome = "Completed"
    /\ DOMAIN nodeLatencyCalibrators = {CalibratedId, Sea \o <<"-">> \o UsWest}
    /\ \E cal \in {nodeLatencyCalibrators[CalibratedId]} :
          /\ Len(cal.deque) = 2
          /\ cal.deque[1].timestamp = cal.startTime
          /\ cal.deque[1].timestamp < nodeLatencyCalibrators[Sea \o <<"-">> \o UsWest].startTime
          /\ nodeLatencyCalibrators[Sea \o <<"-">> \o UsWest].startTime < cal.deque[2].timestamp

-----------------------------------------------------------------------------
(* The order of the nodes: claims C19 and C20, checked under SpecSort       *)

\* The first hit in the table among three codes
FirstHit(fromName, fromId, fromRegion) ==
    IF fromName \in DOMAIN regionIdMap THEN Some(regionIdMap[fromName])
    ELSE IF fromId \in DOMAIN regionIdMap THEN Some(regionIdMap[fromId])
    ELSE IF fromRegion \in DOMAIN regionIdMap THEN Some(regionIdMap[fromRegion])
    ELSE Undef

\* The sort key of a node as C19 states it: the first hit among the lowercased
\* name, the lowercased part of the id before its first '-' and the lowercased
\* region
SortKey(node) ==
    FirstHit(ToLower(node.name), ToLower(Split(node.id, "-")[1]), ToLower(node.region))

\* The same with the three codes trimmed of white space as well
SortKeyTrimmed(node) ==
    FirstHit(ToLower(Trim(node.name)), ToLower(Trim(Split(node.id, "-")[1])),
             ToLower(Trim(node.region)))

\* A node of key ka and names a may stand before one of key kb and names b:
\* with key before without, keys ascending, then by name, then by region
MayPrecede(ka, a, kb, b) ==
    /\ kb.def => ka.def
    /\ ka.def /\ kb.def => ka.v <= kb.v
    /\ ka = kb =>
          /\ localeCompare(a.name, b.name) <= 0
          /\ a.name = b.name => localeCompare(a.region, b.region) <= 0

Reordered(p) == [k \in 1..Len(chunks) |-> chunks[p[k]]]

NodeSet(nodes) == { nodes[i] : i \in 1..Len(nodes) }

\* C20: the order of the nodes is deterministic: for a fixed region table, two
\* logs that give the same set of nodes give the same order of the nodes,
\* whatever the order of the lines in the log.
C20_OrderIndependentOfLineOrder ==
    outcome = "Completed" =>
        \A p \in Permutations(1..Len(chunks)) :
            \A other \in {parseNodesFromProbeLog(ChunksText(Reordered(p)), now, regionIdMap)} :
                NodeSet(other) = NodeSet(CompletedParse) => other = CompletedParse

\* C20 witness: the two nodes whose names are the two encodings of one accented
\* letter stand in the order of their lines
C20_Witness ==
    /\ outcome = "Completed"
    /\ chunks = <<17, 16>>
    /\ [i \in 1..2 |-> result.nodes[i].name] = << <<"e<U+0301>">>, <<"<U+00E9>">> >>

-----------------------------------------------------------------------------
(* The raw-fallback variant: claims C21 to C23 and C28, checked under SpecRaw *)

\* C21: in a Completed result of the raw-fallback variant the nodes are exactly
\* the records picked from the output stream whenever there is at least one, and
\* the nodes parsed from the log only when there is none; there is none when the
\* output is empty, is no JSON at all, or holds only objects without an
\* identifier, a latency, a loss or an error field.
C21_RawRecordsBeforeLog ==
    outcome = "Completed" =>
        /\ \A rawNodes \in { pickNodeRecords(parseOutput(stdout), now) } :
              /\ Len(rawNodes) >= 1 => result.nodes = rawNodes
              /\ Len(rawNodes) = 0 =>
                    result.nodes = parseNodesFromProbeLog_v2(stderr, now, regionIdMap)
        /\ (\E cs \in SeqsUpTo({7, 8}, MaxOutputLines) : stdout = OutputText(cs)) =>
              result.nodes = parseNodesFromProbeLog_v2(stderr, now, regionIdMap)

\* Both parsers have nodes to give, and the result has those of the output stream
C21_Witness ==
    /\ outcome = "Completed"
    /\ Len(parseNodesFromProbeLog_v2(stderr, now, regionIdMap)) > 0
    /\ Len(pickNodeRecords(parseOutput(stdout), now)) > 0
    /\ result.nodes = pickNodeRecords(parseOutput(stdout), now)

\* The nodes of a Completed result that were picked from the output stream
RawNodes ==
    IF outcome = "Completed" /\ Len(pickNodeRecords(parseOutput(stdout), now)) > 0
    THEN result.nodes ELSE <<>>

\* The record has a non-empty text under error, err or message
HasErrorField(obj) ==
    \E k \in {"error", "err", "message"} : Field(obj, k).t = "string" /\ Field(obj, k).s # <<>>

\* C22: the status of a node picked from the output stream is given by the first
\* rule that matches: down if the record has a non-empty error text (error, err
\* or message); else unknown if it has no latency value; else degraded if it
\* has a loss of 20 or more, or a latency of 180 ms or more; else healthy.
C22_StatusByFirstMatchingRule ==
    \A i \in 1..Len(RawNodes) :
        \E node \in { RawNodes[i] } :
            node.status =
                IF HasErrorField(node.raw) THEN "down"
                ELSE IF ~node.latencyMs.def THEN "unknown"
                ELSE IF (node.lossPct.def /\ node.lossPct.v >= 20)
                        \/ node.latencyMs.v >= 180 * 100 THEN "degraded"
                ELSE "healthy"

\* A node with a latency of exactly 180 ms and no loss is degraded, next to a down
\* node that has a latency
C22_Witness ==
    /\ \E i \in 1..Len(RawNodes) :
          /\ RawNodes[i].latencyMs = Some(180 * 100) /\ ~RawNodes[i].lossPct.def
          /\ RawNodes[i].status = "degraded"
    /\ \E i \in 1..Len(RawNodes) :
          /\ RawNodes[i].latencyMs.def /\ RawNodes[i].status = "down"

\* C23: within the result of one cycle no two nodes have the same id, whichever
\* parser gave the nodes; a record without an identifier gets one node, with a
\* generated id node-<k>.
C23_NoTwoNodesShareAnId ==
    outcome = "Completed" =>
        \A i, j \in 1..Len(result.nodes) :
            i # j => result.nodes[i].id # result.nodes[j].id

\* A record without an identifier came first and a record whose identifier is
\* node-1 second: the result has two nodes with the id node-1
C23_Witness ==
    /\ outcome = "Completed"
    /\ stdout = OutputText(<<3, 4>>)
    /\ Len(result.nodes) = 2
    /\ result.nodes[1].id = <<"node", "-", "1">>
    /\ result.nodes[2].id = <<"node", "-", "1">>
    /\ result.nodes[1].raw # result.nodes[2].raw

\* C28: in every Completed result the nodes are in region order, also when they
\* were picked from the output stream: a node with a sort key stands before every
\* node without one, and nodes with keys stand in ascending order of the key.
C28_ResultInRegionOrder ==
    outcome = "Completed" =>
        \A i, j \in 1..Len(result.nodes) :
            i < j =>
                \E ka \in { SortKeyTrimmed(result.nodes[i]) } :
                \E kb \in { SortKeyTrimmed(result.nodes[j]) } :
                    /\ kb.def => ka.def
                    /\ ka.def /\ kb.def => ka.v <= kb.v

\* The output stream names nyc (key 2) before sea (key 1), and so does the result
C28_Witness ==
    /\ outcome = "Completed"
    /\ stdout = OutputText(<<1, 2>>)
    /\ [i \in 1..Len(result.nodes) |-> result.nodes[i].id] = <<Nyc, Sea>>
    /\ SortKeyTrimmed(result.nodes[1]) = Some(2)
    /\ SortKeyTrimmed(result.nodes[2]) = Some(1)

-----------------------------------------------------------------------------
(* The summary, the listeners and the maps: claims C24 to C26, checked under  *)
(* Spec and SpecCycles                                                        *)

\* The number of nodes of the result with the status
NodesWith(status) ==
    Cardinality({ i \in 1..Len(result.nodes) : result.nodes[i].status = status })

\* C24: in every result the summary's total is the number of nodes and the sum of
\* its four status counts, each count is the number of nodes with that status,
\* and avgLatencyMs is null exactly when no node has a latency, and otherwise the
\* mean of the latencies of the nodes that have one, rounded to whole ms.
C24_SummaryMatchesNodes ==
    result # NoResult =>
        \E s \in { result.summary } :
        \E measured \in { SelectSeq(result.nodes, HasLatency) } :
            /\ s.total = Len(result.nodes)
            /\ s.total = s.healthy + s.degraded + s.down + s.unknown
            /\ s.healthy = NodesWith("healthy") /\ s.degraded = NodesWith("degraded")
            /\ s.down = NodesWith("down") /\ s.unknown = NodesWith("unknown")
            /\ s.avgLatencyMs.def <=> Len(measured) > 0
            /\ s.avgLatencyMs.def =>
                  \* Math.round: avg <= mean + 1/2 < avg + 1, latencies in hundredths
                  /\ 200 * Len(measured) * s.avgLatencyMs.v
                        <= 2 * SumLatency(measured) + 100 * Len(measured)
                  /\ 2 * SumLatency(measured) + 100 * Len(measured)
                        < 200 * Len(measured) * (s.avgLatencyMs.v + 1)

\* A Completed result of two nodes, one healthy with a latency and one down
\* without: the average is that of the one latency
C24_Witness ==
    /\ outcome = "Completed"
    /\ Len(result.nodes) = 2
    /\ result.summary.healthy = 1 /\ result.summary.down = 1
    /\ Len(SelectSeq(result.nodes, HasLatency)) = 1
    /\ result.summary.avgLatencyMs.def

\* C25: once the invocation is resolved, by whichever outcome, the timer is no
\* longer pending and the 'data' listener of the diagnostic stream is detached:
\* a chunk that arrives after the resolution changes no buffer of the cycle, so
\* the buffer stays the text it was when the result was resolved (the text the
\* TimedOut and LaunchFailed results carry).
C25_ListenersDetachedOnResolution ==
    settled =>
        /\ ~timerPending
        /\ outcome \in {"TimedOut", "LaunchFailed"} => stderr = result.stderr.text

\* After a TimedOut resolution the child, not yet closed, has written a line, and
\* the buffer is longer than the text of the result
C25_Witness ==
    /\ outcome = "TimedOut"
    /\ ~closeEmitted /\ ~timerPending
    /\ result.stderr.text = <<>>
    /\ stderr # <<>>

\* C26: the history map and the calibrator map are touched only on the Completed
\* path: a step changes either map only if it is the step in which the 'close'
\* handler resolves the invocation; the steps of a TimedOut or LaunchFailed
\* cycle, and a 'close' or 'error' event that arrives after the resolution,
\* leave both maps as they are.
C26_MapsChangeOnlyOnCompleted ==
    [][ /\ (nodeProbeHistory' # nodeProbeHistory
              \/ nodeLatencyCalibrators' # nodeLatencyCalibrators)
            => (~settled /\ ~closeEmitted /\ closeEmitted' /\ outcome' = "Completed")
        /\ (outcome' \in {"TimedOut", "LaunchFailed"} \/ settled)
            => /\ nodeProbeHistory' = nodeProbeHistory
               /\ nodeLatencyCalibrators' = nodeLatencyCalibrators
      ]_vars

\* The second cycle timed out and its child closed afterwards, having written a
\* line about sea-us-west: both maps still hold only the node of the first cycle
C26_Witness ==
    /\ cycle = 2
    /\ outcome = "TimedOut"
    /\ closeEmitted
    /\ chunks = <<5>>
    /\ DOMAIN nodeProbeHistory = {CalibratedId}
    /\ DOMAIN nodeLatencyCalibrators = {CalibratedId}
    /\ Len(nodeProbeHistory[CalibratedId]) = 1

-----------------------------------------------------------------------------
(* The region map: claim C27, checked under SpecRegions                       *)

\* The location names no document with Regions that the process can read
RegionMapFails ==
    /\ Trim(envDerpMap) # <<>>
    /\ \/ DerpMapPath(envDerpMap) \notin DOMAIN files
       \/ \E doc \in { files[p] : p \in {DerpMapPath(envDerpMap)} \cap DOMAIN files } :
             ~doc.readable \/ ~doc.isJson \/ ~doc.hasRegions

\* C27: a region map document that is missing, unreadable, no JSON or without
\* Regions gives the empty table and never fails the cycle: the result (ok, the
\* nodes with their statuses, the error) is the one the same log and exit code
\* give with no region map at all, and the nodes are ordered by name and then by
\* region.
C27_RegionMapFailureIsHarmless ==
    (outcome = "Completed" /\ RegionMapFails) =>
        /\ regionIdMap = EmptyMap
        /\ \E plain \in { updateNodeLossFromHistory(
                               parseNodesFromProbeLog(stderr, now, EmptyMap),
                               EmptyMap, EmptyMap, now).nodes } :
              result = CompletedResult(exitCode, plain)
        /\ \A i, j \in 1..Len(result.nodes) :
              i < j => MayPrecede(Undef, result.nodes[i], Undef, result.nodes[j])

\* The document has no Regions; the log names sea before nyc and the exit code is
\* 1: the result is ok and lists nyc before sea, by name
C27_Witness ==
    /\ outcome = "Completed"
    /\ envDerpMap = <<"file://">> \o NoRegionsFilePath
    /\ chunks = <<5, 1>>
    /\ exitCode = [isNull |-> FALSE, n |-> 1]
    /\ result.ok
    /\ [i \in 1..Len(result.nodes) |-> result.nodes[i].name] = <<Nyc, Sea>>

-----------------------------------------------------------------------------
(* Lines outside the grammar: claim C30, checked under SpecIgnored            *)

\* The catalog line is of the grammar and its path has three segments or more
IsNodeLine(i) == LogCatalog[i].level # "none"

\* C30: a line that does not match (good|bad): derp/<path>: <text> after its
\* timestamp is stripped, or whose path has fewer than three segments, creates no
\* node and changes no node's counters, latency or messages: the nodes of the
\* result are those of the log without such lines.
C30_UnmatchedLinesChangeNothing ==
    outcome = "Completed" =>
        \E kept \in { SelectSeq(chunks, IsNodeLine) } :
            result.nodes =
                updateNodeLossFromHistory(
                    parseNodesFromProbeLog(ChunksText(kept), now, regionIdMap),
                    EmptyMap, EmptyMap, now).nodes

\* A good line and an unreachable udp6 line about nyc-us-east, then a line with a
\* path of two segments: the node is healthy and has no loss, where the two
\* lines alone make it degraded
C30_Witness ==
    /\ outcome = "Completed"
    /\ chunks = <<1, 6, 19>>
    /\ Len(result.nodes) = 1
    /\ result.nodes[1].status = "healthy"
    /\ parseNodesFromProbeLog(ChunksText(<<1, 6>>), now, regionIdMap)[1].status = "degraded"

-----------------------------------------------------------------------------
(* Termination: claim C29, checked under SpecLive                             *)

\* C29: every invocation eventually resolves; when neither 'close' nor 'error'
\* occurs, the timer fires and resolves it as TimedOut, and a TimedOut result is
\* never resolved before the effective timeout has elapsed.
C29_EveryInvocationResolves ==
    /\ (cycle > 0) ~> (result # NoResult)
    /\ (cycle > 0) ~> (closeEmitted \/ errorEmitted \/ outcome = "TimedOut")
    /\ [](outcome = "TimedOut" => result.durationMs >= timeoutMs)

\* The child has written a line and has neither closed nor failed when the
\* timer fires at the floor of 65000 ms: the invocation is resolved as TimedOut
C29_Witness ==
    /\ outcome = "TimedOut"
    /\ ~closeEmitted /\ ~errorEmitted
    /\ chunks # <<>>
    /\ timeoutMs = MIN_ONCE_TIMEOUT_MS
    /\ result.durationMs = MIN_ONCE_TIMEOUT_MS
    /\ kills = 1

-----------------------------------------------------------------------------
(* The history of the process: claim C31, checked under SpecNodes             *)

\* The ids of the nodes of the result the step resolves
IdsOfStep == { result'.nodes[i].id : i \in 1..Len(result'.nodes) }

\* C31: a Completed cycle appends exactly one sample to the history of each node
\* id of its node list (the oldest sample leaving a full window) and none to any
\* other id: in every step the history of an id that is not in the node list of
\* a cycle resolved as Completed by that step is unchanged, and no id ever
\* leaves the history map or the calibrator map.
C31_OneSamplePerPresentNode ==
    [][ /\ DOMAIN nodeProbeHistory \subseteq DOMAIN nodeProbeHistory'
        /\ DOMAIN nodeLatencyCalibrators \subseteq DOMAIN nodeLatencyCalibrators'
        /\ \A id \in DOMAIN nodeProbeHistory' :
              \E old \in { IF id \in DOMAIN nodeProbeHistory
                            THEN nodeProbeHistory[id] ELSE <<>> } :
              \E new \in { nodeProbeHistory'[id] } :
                 IF CompletedStep /\ id \in IdsOfStep
                 THEN /\ new # <<>>
                      /\ Len(old) < PROBE_WINDOW_SIZE =>
                            SubSeq(new, 1, Len(new) - 1) = old
                      /\ Len(old) = PROBE_WINDOW_SIZE =>
                            SubSeq(new, 1, Len(new) - 1) = Tail(old)
                      /\ \E i \in 1..Len(result'.nodes) :
                            /\ result'.nodes[i].id = id
                            /\ new[Len(new)] =
                                  [success |-> result'.nodes[i].status \in {"healthy", "degraded"},
                                   latencyMs |-> result'.nodes[i].latencyMs]
                 ELSE /\ id \in DOMAIN nodeProbeHistory
                      /\ new = old
      ]_vars

\* The second cycle completed with sea-us-west alone: its history has one sample,
\* and the history of nyc-us-east still has the one sample of the first cycle
C31_Witness ==
    /\ cycle = 2
    /\ outcome = "Completed"
    /\ [i \in 1..Len(result.nodes) |-> result.nodes[i].id] = << Sea \o <<"-">> \o UsWest >>
    /\ DOMAIN nodeProbeHistory = {CalibratedId, Sea \o <<"-">> \o UsWest}
    /\ Len(nodeProbeHistory[CalibratedId]) = 1
    /\ Len(nodeProbeHistory[Sea \o <<"-">> \o UsWest]) = 1

-----------------------------------------------------------------------------
(* The window turned over: claim C32, checked under SpecHistory               *)

\* C32: whatever the earlier history of a node, after 10 consecutive Completed
\* cycles in which its status was healthy or degraded its lossPct is 0, and
\* after 10 consecutive Completed cycles in which its status was down or unknown
\* its lossPct is 100.  Stated on the samples taken for the node: when the last
\* 10 of them are all successes the node reports 0, when they are all failures
\* it reports 100.
C32_LossAfterTenAlikeCycles ==
    outcome = "Completed" =>
        \A i \in 1..Len(result.nodes) :
            \E rec \in { recorded[result.nodes[i].id] } :
                Len(rec) >= PROBE_WINDOW_SIZE =>
                    /\ (\A k \in (Len(rec) - PROBE_WINDOW_SIZE + 1)..Len(rec) : rec[k].success)
                          => result.nodes[i].lossPct = Some(0)
                    /\ (\A k \in (Len(rec) - PROBE_WINDOW_SIZE + 1)..Len(rec) : ~rec[k].success)
                          => result.nodes[i].lossPct = Some(100)

\* The node was down in its first cycle and healthy in the 10 cycles after it:
\* the failure has left the window and the node reports a loss of 0
C32_Witness ==
    /\ outcome = "Completed"
    /\ Len(result.nodes) = 1
    /\ \E rec \in { recorded[result.nodes[1].id] } :
          /\ Len(rec) = PROBE_WINDOW_SIZE + 1
          /\ ~rec[1].success
          /\ \A k \in 2..Len(rec) : rec[k].success
    /\ result.nodes[1].status = "healthy"
    /\ result.nodes[1].lossPct = Some(0)

-----------------------------------------------------------------------------
(* The order of the steps of a Completed cycle: claim C33, checked under      *)
(* SpecFlow                                                                   *)

\* The baseline of the node's calibrator after the call of the cycle
BaselineOf(id) ==
    CHOOSE b \in { IF now - cal.startTime < CALIBRATION_WARMUP_MINS * 60 * 1000
                      /\ cal.deque[1].rtt > CALIBRATION_FALLBACK_MS * 100
                   THEN CALIBRATION_FALLBACK_MS * 100
                   ELSE cal.deque[1].rtt : cal \in { nodeLatencyCalibrators[id] } } : TRUE

\* C33: on a Completed cycle the nodes are parsed and sorted, then calibrated,
\* then recorded in the history, then summarized, and then ok is decided: the
\* nodes of the result are those of the parse in its order; the latency reported
\* for a node and the latency of its history sample are the calibrated delay of
\* the round trip parsed (max(0, rtt - baseline)), not the round trip;
\* summary.avgLatencyMs is the rounded mean of the reported latencies; and ok is
\* decided by the exit code and the statuses of the cycle, whatever the lossPct.
C33_CalibratedThenSummarized ==
    outcome = "Completed" =>
        /\ Len(result.nodes) = Len(CompletedParse)
        /\ \A i \in 1..Len(result.nodes) :
              \E node \in { result.nodes[i] } : \E parsed \in { CompletedParse[i] } :
                 /\ node.id = parsed.id /\ node.status = parsed.status
                 /\ node.latencyMs.def = parsed.latencyMs.def
                 /\ parsed.latencyMs.def =>
                       node.latencyMs.v = Max({0, parsed.latencyMs.v - BaselineOf(node.id)})
                 /\ nodeProbeHistory[node.id][Len(nodeProbeHistory[node.id])].latencyMs
                       = node.latencyMs
        /\ \E measured \in { SelectSeq(result.nodes, HasLatency) } :
              /\ result.summary.avgLatencyMs.def = (measured # <<>>)
              /\ measured # <<>> =>
                    IsRounded(result.summary.avgLatencyMs.v, SumLatency(measured),
                              100 * Len(measured))
        /\ result.ok =
              (~exitCode.isNull /\
                 (exitCode.n = 0 \/
                    (exitCode.n = 1 /\ \A i \in 1..Len(CompletedParse) :
                                          CompletedParse[i].status = "healthy")))

\* nyc-us-east was down in the first cycle; in the second it is healthy with a
\* round trip of 31 ms and the exit code is 1: the node reports the delay of 21 ms
\* and a loss of 50, the summary averages 21 ms, and the result is ok
C33_Witness ==
    /\ cycle = 2
    /\ outcome = "Completed"
    /\ exitCode = [isNull |-> FALSE, n |-> 1]
    /\ Len(result.nodes) = 1
    /\ CompletedParse[1].latencyMs = Some(3100)
    /\ result.nodes[1].latencyMs = Some(2100)
    /\ result.nodes[1].lossPct = Some(50)
    /\ result.summary.avgLatencyMs = Some(21)
    /\ result.ok

-----------------------------------------------------------------------------
(* The leniency rule of the raw-fallback variant: claim C34, checked under    *)
(* SpecLenient                                                                *)

\* The lines of LenientLines by what they are: a bad line (2, 6, 7), a bad udp6
\* line with 'network is unreachable' and 'write udp [::]' (7), a good udp6 line
\* (20), a good line about another probe (1, 5, 9)
WrittenBad == { k \in 1..Len(chunks) : chunks[k] \in {2, 6, 7} }
WrittenBadHostLevel == { k \in 1..Len(chunks) : chunks[k] = 7 }
WrittenGoodUdp6 == { k \in 1..Len(chunks) : chunks[k] = 20 }
WrittenGoodOther == { k \in 1..Len(chunks) : chunks[k] \in {1, 5, 9} }

\* C34: in the raw-fallback variant a Completed cycle is ok iff the exit code is
\* 0, or it is 1 and the log has at least one bad line, every bad line is a udp6
\* 'network is unreachable' failure with 'write udp [::]' or 'dial udp [::]',
\* there is no good udp6 line and there is at least one good line about another
\* probe; the output stream, and so the parser that gave the nodes, plays no
\* part in it.
C34_OkByLogAlone ==
    outcome = "Completed" =>
        result.ok =
            /\ ~exitCode.isNull
            /\ \/ exitCode.n = 0
               \/ /\ exitCode.n = 1
                  /\ WrittenBad # {}
                  /\ WrittenBad = WrittenBadHostLevel
                  /\ WrittenGoodUdp6 = {}
                  /\ WrittenGoodOther # {}

\* The exit code is 1, the log has a good line with a timestamp and the udp6
\* failure of the host, and the nodes come from the output stream: ok
C34_Witness ==
    /\ outcome = "Completed"
    /\ exitCode = [isNull |-> FALSE, n |-> 1]
    /\ chunks = <<5, 7>>
    /\ stdout = OutputText(<<1>>)
    /\ result.nodes # <<>> /\ result.nodes = pickNodeRecords(parseOutput(stdout), now)
    /\ result.ok
    /\ ~result.error.def

-----------------------------------------------------------------------------
(* The shape of the calibrator's sample window: claim C35, checked under      *)
(* SpecCalibrator                                                             *)

\* C35: after a call the calibrator's sample window is not empty, its round
\* trips increase strictly and its timestamps never decrease from front to
\* back, and its last element is the sample the call inserted.
C35_WindowShape ==
    Calls # <<>> =>
        LET deque == nodeLatencyCalibrators[CalibratedId].deque
            last == Calls[Len(Calls)]
        IN  /\ deque # <<>>
            /\ \A i \in 1..(Len(deque) - 1) :
                  /\ deque[i].rtt < deque[i + 1].rtt
                  /\ deque[i].timestamp <= deque[i + 1].timestamp
            /\ deque[Len(deque)] = [timestamp |-> last.at, rtt |-> last.rtt.v]

\* A window of three samples after four calls: the second call popped the
\* first sample, the others were appended, two of them in the same millisecond
C35_Witness ==
    /\ Len(Calls) = 4
    /\ Calls[2].rtt.v <= Calls[1].rtt.v
    /\ Len(nodeLatencyCalibrators[CalibratedId].deque) = 3
    /\ \E i \in 1..2 :
          nodeLatencyCalibrators[CalibratedId].deque[i].timestamp =
              nodeLatencyCalibrators[CalibratedId].deque[i + 1].timestamp

-----------------------------------------------------------------------------
(* No node of the log parser is unknown: claim C36, checked under SpecLog     *)

\* The lines written that match the grammar and are about the node
MatchedLines(id) ==
    { k \in 1..Len(chunks) :
          /\ LogCatalog[chunks[k]].level \in {"good", "bad"}
          /\ LogCatalog[chunks[k]].a \o <<"-">> \o LogCatalog[chunks[k]].b = id }

\* C36: no node of a log-parsed Completed result has status unknown; every node
\* has at least one good or bad line that matched it, and summary.unknown is 0.
C36_NoUnknownNode ==
    outcome = "Completed" =>
        /\ \A k \in 1..Len(result.nodes) :
              /\ result.nodes[k].status \in {"healthy", "degraded", "down"}
              /\ MatchedLines(result.nodes[k].id) # {}
        /\ result.summary.unknown = 0
        /\ result.summary.total =
              result.summary.healthy + result.summary.degraded + result.summary.down

\* The only line about sea-us-west is the udp6 failure of a host without IPv6,
\* which counts neither as a udp6 failure nor as another error: the node is down
C36_Witness ==
    /\ outcome = "Completed"
    /\ chunks = <<1, 7>>
    /\ Len(result.nodes) = 2
    /\ \E k \in 1..2 :
          /\ result.nodes[k].id = Sea \o <<"-">> \o UsWest
          /\ result.nodes[k].status = "down"
    /\ result.summary.down = 1 /\ result.summary.unknown = 0

-----------------------------------------------------------------------------
(* Exit code 1 and no node: claim C37, checked under SpecLog                  *)

\* C37: a Completed cycle with exit code 1 whose log yields no node, being empty
\* or made of lines that match nothing, is reported ok with no error field and a
\* summary of total 0.
C37_ExitOneWithoutNodesIsOk ==
    ( /\ outcome = "Completed"
      /\ exitCode = [isNull |-> FALSE, n |-> 1]
      /\ \A k \in 1..Len(chunks) : ~IsNodeLine(chunks[k]) ) =>
        /\ result.nodes = <<>>
        /\ result.ok
        /\ ~result.error.def
        /\ result.summary.total = 0
        /\ result.summary = summarize(<<>>)

\* The log is a line outside the grammar and a line with a path of two
\* segments, the exit code is 1: ok, and the text of the log is reported
C37_Witness ==
    /\ outcome = "Completed"
    /\ exitCode = [isNull |-> FALSE, n |-> 1]
    /\ chunks = <<10, 9>>
    /\ result.nodes = <<>>
    /\ result.ok
    /\ result.stderr.def

-----------------------------------------------------------------------------
(* Overlapping invocations: claim C38, checked under SpecOverlap              *)

\* The step is the 'close' handler of the overlapping invocation
OverlappingCloses == overlapping.running /\ ~overlapping'.running

\* The nodes of the result the step resolves, of either invocation
ClosedNodes ==
    IF CompletedStep THEN result'.nodes
    ELSE IF OverlappingCloses THEN overlapping'.result.nodes
    ELSE <<>>

\* The log of the invocation whose 'close' handler the step is
ClosedLog == IF CompletedStep THEN stderr ELSE overlapping.stderr

\* C38: when invocations overlap, each 'close' handler parses, calibrates and
\* updates the history as one step: it appends the one sample of its own log to
\* the history of each of its nodes, after the samples of the handlers that ran
\* before it, and changes nothing else, so that after both have completed no
\* sample is lost or duplicated; no history exceeds 10 samples, and every
\* calibrator window is non-empty with strictly increasing round trips and
\* non-decreasing timestamps.
C38_OverlappingCloseHandlersAreAtomic ==
    [][ /\ \A id \in DOMAIN nodeProbeHistory' :
              \E old \in { IF id \in DOMAIN nodeProbeHistory
                            THEN nodeProbeHistory[id] ELSE <<>> } :
              \E new \in { nodeProbeHistory'[id] } :
                 /\ Len(new) <= PROBE_WINDOW_SIZE
                 /\ IF \E i \in 1..Len(ClosedNodes) : ClosedNodes[i].id = id
                    THEN /\ new # <<>>
                         /\ SubSeq(new, 1, Len(new) - 1) =
                               IF Len(old) = PROBE_WINDOW_SIZE THEN Tail(old) ELSE old
                         /\ \E i \in 1..Len(ClosedNodes) :
                               /\ ClosedNodes[i].id = id
                               /\ new[Len(new)] =
                                     [success |-> ClosedNodes[i].status \in {"healthy", "degraded"},
                                      latencyMs |-> ClosedNodes[i].latencyMs]
                    ELSE new = old
        /\ DOMAIN nodeProbeHistory \subseteq DOMAIN nodeProbeHistory'
        /\ \E parsed \in { parseNodesFromProbeLog(ClosedLog, now, EmptyMap) } :
              /\ Len(ClosedNodes) \in {0, Len(parsed)}
              /\ \A i \in 1..Len(ClosedNodes) :
                    /\ ClosedNodes[i].id = parsed[i].id
                    /\ ClosedNodes[i].status = parsed[i].status
        /\ \A id \in DOMAIN nodeLatencyCalibrators' :
              \E deque \in { nodeLatencyCalibrators'[id].deque } :
                 /\ deque # <<>>
                 /\ \A i \in 1..(Len(deque) - 1) :
                       /\ deque[i].rtt < deque[i + 1].rtt
                       /\ deque[i].timestamp <= deque[i + 1].timestamp
      ]_vars

\* The tenth invocation and the request that arrived while it ran have both
\* completed, the later request first and with a failure, the tenth invocation
\* a minute later with a round trip of 10 ms: the window of the node holds the
\* last ten of its eleven samples, the failure and then the success at its end
C38_Witness ==
    /\ cycle = 10 /\ settled /\ outcome = "Completed" /\ chunks = <<11>>
    /\ overlapping.cycle = 10 /\ overlapping.settled /\ overlapping.chunks = <<2>>
    /\ overlapping.result.checkedAt < result.checkedAt
    /\ Len(recorded[CalibratedId]) = 11
    /\ \E window \in { nodeProbeHistory[CalibratedId] } :
          /\ Len(window) = 10
          /\ \A k \in 1..8 : window[k].success
          /\ ~window[9].success
          /\ window[10].success /\ window[10].latencyMs.def
    /\ Len(nodeLatencyCalibrators[CalibratedId].deque) = 1
    /\ nodeLatencyCalibrators[CalibratedId].deque[1] = [timestamp |-> 60000, rtt |-> 1000]


=============================================================================
